---- MODULE Spec2Model ----
(***************************************************************************)
(* Model of the autonomous-dev-studio server: the in-memory store           *)
(* (MemStorage), the HTTP routes over it, and the update-vs-rewrite         *)
(* decision engine of POST /api/analyze-change.                             *)
(*                                                                         *)
(* Text is a sequence of one-character strings; NL is the line feed.       *)
(* Identifiers produced by randomUUID() are modelled by allocation order:  *)
(* the k-th identifier handed out for a map is k, and is never reused.     *)
(* Every route handler is one atomic action: its awaits are on promises    *)
(* that are already resolved, so no other request runs in between.         *)
(***************************************************************************)
EXTENDS Integers, Sequences, FiniteSets, TLC

VARIABLES
  sessions,    \* MemStorage.sessions: id -> Session
  artifacts,   \* MemStorage.artifacts: id -> Artifact
  decisions,   \* MemStorage.decisions: id -> Decision
  toolCalls,   \* MemStorage.toolCalls: id -> ToolCall
  ids,         \* how many identifiers randomUUID() has produced, per map
  now,         \* the clock, in milliseconds
  response,    \* the latest request, what its handler read and what it answered
  broadcasts,  \* the events the latest request's handler broadcast
  remembered,  \* observer: one earlier analysis, kept for comparison
  callers,     \* callers: per artifact, how many hold an 'update' recommendation
               \* they have not logged yet
  calls,       \* observer: per stored session, the storage calls made for it
  microtasks,  \* the continuations of storage methods suspended at an await,
               \* in the order the event loop will resume them
  clients,     \* routes.ts clients: the WebSocket objects subscribed to events
  sockets      \* every WebSocket accepted so far: its readyState and the
               \* messages send() was called with

vars ==
  <<sessions, artifacts, decisions, toolCalls, ids, now, response, broadcasts,
    remembered, callers, calls, microtasks, clients, sockets>>

store == <<sessions, artifacts, decisions, toolCalls, ids>>

(***************************************************************************)
(* Bounds of the model                                                     *)
(***************************************************************************)
MaxSessions == 1
MaxArtifacts == 1
MaxDecisions == 2
MaxVersion == 3
MaxTicks == 1
MaxToolCalls == 1
MaxCallers == 2
MaxChars == 3

(***************************************************************************)
(* Program constants                                                       *)
(***************************************************************************)
WINDOW_MS == 3600000
PROMOTE_LINES == 20
PROMOTE_CHARS == 1500

DEFAULT_SESSION_CONFIG ==
  [maxIterationsPerUpdate |-> 4, maxLinesForUpdate |-> 20, maxLocationsForUpdate |-> 5]

DEFAULT_SESSION_METRICS ==
  [linesGenerated |-> 0, artifactsCreated |-> 0, updatesPerformed |-> 0,
   rewritesPerformed |-> 0, toolCallsMade |-> 0, errorsRecovered |-> 0,
   iterationCount |-> 0]

(***************************************************************************)
(* Text                                                                    *)
(***************************************************************************)
NL == "\n"

Max(a, b) == IF a >= b THEN a ELSE b

HasNL(s) == \E i \in 1..Len(s) : s[i] = NL

FirstNL(s) == CHOOSE i \in 1..Len(s) : s[i] = NL /\ \A j \in 1..(i - 1) : s[j] # NL

\* String.prototype.split('\n'): the lines of a text; the empty text has one
\* (empty) line.
\* Mutant: the empty text has no line at all.
RECURSIVE split_emptyHasNoLines(_)
split_emptyHasNoLines(s) ==
  IF Len(s) = 0 THEN <<>>
  ELSE IF ~HasNL(s) THEN <<s>>
  ELSE <<SubSeq(s, 1, FirstNL(s) - 1)>>
       \o (IF FirstNL(s) = Len(s) THEN <<<<>>>>
           ELSE split_emptyHasNoLines(SubSeq(s, FirstNL(s) + 1, Len(s))))

RECURSIVE split(_)
split(s) ==
  IF ~HasNL(s) THEN <<s>>
  ELSE <<SubSeq(s, 1, FirstNL(s) - 1)>> \o split(SubSeq(s, FirstNL(s) + 1, Len(s)))

\* lines[i] with a JavaScript (0-based) index: undefined beyond the end.
At(lines, i) == IF i < Len(lines) THEN <<"string", lines[i + 1]>> ELSE <<"undefined">>

RECURSIVE Join(_)
Join(lines) ==
  IF Len(lines) = 0 THEN <<>>
  ELSE IF Len(lines) = 1 THEN lines[1]
  ELSE lines[1] \o <<NL>> \o Join(Tail(lines))

(***************************************************************************)
(* Decision engine: the diff loop and the decision rule of                 *)
(* POST /api/analyze-change                                                *)
(***************************************************************************)
DiffStart == [linesChanged |-> 0, locationsChanged |-> 0, inChangeBlock |-> FALSE]

\* Mutant: the else branch that leaves the change block is missing.
DiffStep_neverLeavesBlock(oldLines, newLines, i, st) ==
  IF At(oldLines, i) # At(newLines, i)
  THEN [linesChanged |-> st.linesChanged + 1,
        locationsChanged |-> IF ~st.inChangeBlock THEN st.locationsChanged + 1
                             ELSE st.locationsChanged,
        inChangeBlock |-> TRUE]
  ELSE st

\* Mutant: every changed line opens a change block of its own.
DiffStep_everyLineALocation(oldLines, newLines, i, st) ==
  IF At(oldLines, i) # At(newLines, i)
  THEN [linesChanged |-> st.linesChanged + 1,
        locationsChanged |-> st.locationsChanged + 1,
        inChangeBlock |-> TRUE]
  ELSE [st EXCEPT !.inChangeBlock = FALSE]

\* One iteration of the loop body at index i.
DiffStep(oldLines, newLines, i, st) ==
  IF At(oldLines, i) # At(newLines, i)
  THEN [linesChanged |-> st.linesChanged + 1,
        locationsChanged |-> IF ~st.inChangeBlock THEN st.locationsChanged + 1
                             ELSE st.locationsChanged,
        inChangeBlock |-> TRUE]
  ELSE [st EXCEPT !.inChangeBlock = FALSE]

Min(a, b) == IF a <= b THEN a ELSE b

\* Mutant: the loop stops at the end of the shorter text.
RECURSIVE DiffLoop_toShorter(_, _, _, _)
DiffLoop_toShorter(oldLines, newLines, i, st) ==
  IF ~(i < Min(Len(oldLines), Len(newLines))) THEN st
  ELSE DiffLoop_toShorter(oldLines, newLines, i + 1, DiffStep(oldLines, newLines, i, st))

\* for (let i = 0; i < maxLength; i++) { ... }
RECURSIVE DiffLoop(_, _, _, _)
DiffLoop(oldLines, newLines, i, st) ==
  IF ~(i < Max(Len(oldLines), Len(newLines))) THEN st
  ELSE DiffLoop(oldLines, newLines, i + 1, DiffStep(oldLines, newLines, i, st))

DiffStats(content, newContent) == DiffLoop(split(content), split(newContent), 0, DiffStart)

\* Mutant: the locations bound is not applied.
shouldUpdate_ignoresLocations(linesChanged, locationsChanged, recentLen, config) ==
  /\ linesChanged <= config.maxLinesForUpdate
  /\ recentLen < config.maxIterationsPerUpdate

\* Mutant: the lines bound is not applied.
shouldUpdate_ignoresLines(linesChanged, locationsChanged, recentLen, config) ==
  /\ locationsChanged <= config.maxLocationsForUpdate
  /\ recentLen < config.maxIterationsPerUpdate

\* Mutant: the iteration cap is inclusive.
shouldUpdate_inclusiveIterations(linesChanged, locationsChanged, recentLen, config) ==
  /\ linesChanged <= config.maxLinesForUpdate
  /\ locationsChanged <= config.maxLocationsForUpdate
  /\ recentLen <= config.maxIterationsPerUpdate

\* Mutant: the cap compares the number of the iteration this change would be.
shouldUpdate_iterationNumber(linesChanged, locationsChanged, recentLen, config) ==
  /\ linesChanged <= config.maxLinesForUpdate
  /\ locationsChanged <= config.maxLocationsForUpdate
  /\ recentLen + 1 < config.maxIterationsPerUpdate

\* Mutant: the comparison of the lines bound is reversed.
shouldUpdate_linesBoundReversed(linesChanged, locationsChanged, recentLen, config) ==
  /\ linesChanged >= config.maxLinesForUpdate
  /\ locationsChanged <= config.maxLocationsForUpdate
  /\ recentLen < config.maxIterationsPerUpdate

\* Mutant: a threshold of zero is taken to mean that no cap is configured.
shouldUpdate_zeroMeansNoCap(linesChanged, locationsChanged, recentLen, config) ==
  /\ linesChanged <= config.maxLinesForUpdate
  /\ locationsChanged <= config.maxLocationsForUpdate
  /\ (config.maxIterationsPerUpdate = 0 \/ recentLen < config.maxIterationsPerUpdate)

\* Mutant: the cap counts every logged decision (recentDecisions.length), not
\* the recent updates of the artifact.
shouldUpdate_countsAllDecisions(linesChanged, locationsChanged, recentLen, config) ==
  /\ linesChanged <= config.maxLinesForUpdate
  /\ locationsChanged <= config.maxLocationsForUpdate
  /\ Cardinality(DOMAIN decisions) < config.maxIterationsPerUpdate

shouldUpdate(linesChanged, locationsChanged, recentLen, config) ==
  /\ linesChanged <= config.maxLinesForUpdate
  /\ locationsChanged <= config.maxLocationsForUpdate
  /\ recentLen < config.maxIterationsPerUpdate

\* Text pieces of the reasoning template; an interpolated number is its
\* decimal form.
IsBlank(piece) == piece \in {"", " "}

RECURSIVE TrimEnd(_)
TrimEnd(pieces) ==
  IF Len(pieces) = 0 THEN pieces
  ELSE IF IsBlank(pieces[Len(pieces)]) THEN TrimEnd(SubSeq(pieces, 1, Len(pieces) - 1))
  ELSE IF pieces[Len(pieces)] = "Change requires rewrite: "
       THEN SubSeq(pieces, 1, Len(pieces) - 1) \o <<"Change requires rewrite:">>
  ELSE pieces

LinesClause(linesChanged, config) ==
  <<ToString(linesChanged), " lines exceeds ", ToString(config.maxLinesForUpdate), " limit">>

LocationsClause(locationsChanged, config) ==
  <<ToString(locationsChanged), " locations exceeds ",
    ToString(config.maxLocationsForUpdate), " limit">>

IterationsClause == <<"Max iterations reached">>

\* Mutant: the rationale reports the count of recent updates, not the number
\* of the iteration this change would be.
UpdateReasoning_reportsCount(linesChanged, locationsChanged, recentLen, config) ==
  <<"Change is small enough (", ToString(linesChanged), " lines, ",
    ToString(locationsChanged), " locations) for an update. Iteration ",
    ToString(recentLen), "/", ToString(config.maxIterationsPerUpdate), ".">>

UpdateReasoning(linesChanged, locationsChanged, recentLen, config) ==
  <<"Change is small enough (", ToString(linesChanged), " lines, ",
    ToString(locationsChanged), " locations) for an update. Iteration ",
    ToString(recentLen + 1), "/", ToString(config.maxIterationsPerUpdate), ".">>

\* Mutant: the lines clause is written when the bound is reached, not exceeded.
RewriteReasoning_inclusiveLines(linesChanged, locationsChanged, recentLen, config) ==
  TrimEnd(<<"Change requires rewrite: ">>
          \o (IF linesChanged >= config.maxLinesForUpdate
              THEN LinesClause(linesChanged, config) ELSE <<"">>)
          \o <<" ">>
          \o (IF locationsChanged > config.maxLocationsForUpdate
              THEN LocationsClause(locationsChanged, config) ELSE <<"">>)
          \o <<" ">>
          \o (IF recentLen >= config.maxIterationsPerUpdate
              THEN IterationsClause ELSE <<"">>))

RewriteReasoning(linesChanged, locationsChanged, recentLen, config) ==
  TrimEnd(<<"Change requires rewrite: ">>
          \o (IF linesChanged > config.maxLinesForUpdate
              THEN LinesClause(linesChanged, config) ELSE <<"">>)
          \o <<" ">>
          \o (IF locationsChanged > config.maxLocationsForUpdate
              THEN LocationsClause(locationsChanged, config) ELSE <<"">>)
          \o <<" ">>
          \o (IF recentLen >= config.maxIterationsPerUpdate
              THEN IterationsClause ELSE <<"">>))

Recommendation(linesChanged, locationsChanged, recentLen, config) ==
  [decisionType |-> IF shouldUpdate(linesChanged, locationsChanged, recentLen, config)
                    THEN "update" ELSE "rewrite",
   linesChanged |-> linesChanged,
   locationsChanged |-> locationsChanged,
   currentIterations |-> recentLen,
   maxIterations |-> config.maxIterationsPerUpdate,
   reasoning |-> IF shouldUpdate(linesChanged, locationsChanged, recentLen, config)
                 THEN UpdateReasoning(linesChanged, locationsChanged, recentLen, config)
                 ELSE RewriteReasoning(linesChanged, locationsChanged, recentLen, config)]

(***************************************************************************)
(* MemStorage                                                              *)
(***************************************************************************)
Has(map, key) == key \in DOMAIN map

\* { ...record, ...updates }
Merge(record, updates) ==
  [f \in (DOMAIN record) \cup (DOMAIN updates) |->
     IF f \in DOMAIN updates THEN updates[f] ELSE record[f]]

\* Mutant: a new session starts with a cap of three iterations.
createSession_capOfThree(id) ==
  [id |-> id, status |-> "active", currentMode |-> "deliberation",
   startedAt |-> now, lastActivityAt |-> now,
   metrics |-> DEFAULT_SESSION_METRICS,
   config |-> [DEFAULT_SESSION_CONFIG EXCEPT !.maxIterationsPerUpdate = 3]]

createSession(id) ==
  [id |-> id, status |-> "active", currentMode |-> "deliberation",
   startedAt |-> now, lastActivityAt |-> now,
   metrics |-> DEFAULT_SESSION_METRICS, config |-> DEFAULT_SESSION_CONFIG]

\* The sessions map after updateSession(id, updates) on the map ss.
updateSession(ss, id, updates) ==
  IF ~Has(ss, id) THEN ss
  ELSE [ss EXCEPT ![id] = Merge(Merge(ss[id], updates), [lastActivityAt |-> now])]

deleteSession(ss, id) == [k \in (DOMAIN ss) \ {id} |-> ss[k]]

IsPromoted(lineCount, charCount) == lineCount > PROMOTE_LINES \/ charCount > PROMOTE_CHARS

newArtifact(id, insertArtifact) ==
  LET lineCount == Len(split(insertArtifact.content))
      charCount == Len(insertArtifact.content)
  IN [id |-> id, sessionId |-> insertArtifact.sessionId,
      content |-> insertArtifact.content, version |-> 1,
      lineCount |-> lineCount, charCount |-> charCount,
      isPromoted |-> IsPromoted(lineCount, charCount),
      createdAt |-> now, updatedAt |-> now,
      history |-> <<[version |-> 1, content |-> insertArtifact.content,
                     lineCount |-> lineCount, charCount |-> charCount,
                     decisionType |-> "create", timestamp |-> now]>>]

createArtifact(id, insertArtifact) ==
  LET artifact == newArtifact(id, insertArtifact)
      sid == insertArtifact.sessionId
  IN /\ artifacts' = (id :> artifact) @@ artifacts
     /\ sessions' =
          IF Has(sessions, sid)
          THEN updateSession(sessions, sid,
                 [metrics |-> [sessions[sid].metrics EXCEPT
                    !.artifactsCreated = @ + 1,
                    !.linesGenerated = @ + artifact.lineCount]])
          ELSE sessions

\* Mutant: a promoted artifact stays promoted.
updatedArtifact_staysPromoted(artifact, update) ==
  LET lineCount == Len(split(update.content))
      charCount == Len(update.content)
      newVersion == artifact.version + 1
      versionEntry == [version |-> newVersion, content |-> update.content,
                       lineCount |-> lineCount, charCount |-> charCount,
                       decisionType |-> update.decisionType, timestamp |-> now]
  IN [artifact EXCEPT !.content = update.content, !.version = newVersion,
                      !.lineCount = lineCount, !.charCount = charCount,
                      !.isPromoted = artifact.isPromoted \/ IsPromoted(lineCount, charCount),
                      !.updatedAt = now,
                      !.history = Append(artifact.history, versionEntry)]

\* Mutant: the new version entry takes the place of the latest one.
updatedArtifact_replacesLatestEntry(artifact, update) ==
  LET lineCount == Len(split(update.content))
      charCount == Len(update.content)
      newVersion == artifact.version + 1
      versionEntry == [version |-> newVersion, content |-> update.content,
                       lineCount |-> lineCount, charCount |-> charCount,
                       decisionType |-> update.decisionType, timestamp |-> now]
  IN [artifact EXCEPT !.content = update.content, !.version = newVersion,
                      !.lineCount = lineCount, !.charCount = charCount,
                      !.isPromoted = IsPromoted(lineCount, charCount),
                      !.updatedAt = now,
                      !.history = SubSeq(artifact.history, 1, Len(artifact.history) - 1)
                                    \o <<versionEntry>>]

updatedArtifact(artifact, update) ==
  LET lineCount == Len(split(update.content))
      charCount == Len(update.content)
      newVersion == artifact.version + 1
      versionEntry == [version |-> newVersion, content |-> update.content,
                       lineCount |-> lineCount, charCount |-> charCount,
                       decisionType |-> update.decisionType, timestamp |-> now]
  IN [artifact EXCEPT !.content = update.content, !.version = newVersion,
                      !.lineCount = lineCount, !.charCount = charCount,
                      !.isPromoted = IsPromoted(lineCount, charCount),
                      !.updatedAt = now,
                      !.history = Append(artifact.history, versionEntry)]

\* Mutant: every change of an artifact is counted as an update.
updateArtifact_countsRewriteAsUpdate(id, update) ==
  LET artifact == artifacts[id]
      updated == updatedArtifact(artifact, update)
      sid == artifact.sessionId
  IN /\ artifacts' = [artifacts EXCEPT ![id] = updated]
     /\ sessions' =
          IF Has(sessions, sid)
          THEN updateSession(sessions, sid,
                 [metrics |-> [sessions[sid].metrics EXCEPT
                    !.updatesPerformed = @ + 1,
                    !.linesGenerated = @ + Max(0, updated.lineCount - artifact.lineCount)]])
          ELSE sessions

\* Precondition: the artifact exists.
updateArtifact(id, update) ==
  LET artifact == artifacts[id]
      updated == updatedArtifact(artifact, update)
      sid == artifact.sessionId
  IN /\ artifacts' = [artifacts EXCEPT ![id] = updated]
     /\ sessions' =
          IF Has(sessions, sid)
          THEN updateSession(sessions, sid,
                 [metrics |->
                    IF update.decisionType = "update"
                    THEN [sessions[sid].metrics EXCEPT
                            !.updatesPerformed = @ + 1,
                            !.linesGenerated = @ + Max(0, updated.lineCount - artifact.lineCount)]
                    ELSE [sessions[sid].metrics EXCEPT
                            !.rewritesPerformed = @ + 1,
                            !.linesGenerated = @ + Max(0, updated.lineCount - artifact.lineCount)]])
          ELSE sessions

deleteArtifact(as, id) == [k \in (DOMAIN as) \ {id} |-> as[k]]

\* A decision's timestamp is what the request body carried: JSON has no Date,
\* so it is a date string (kind "string", the instant ms) or absent.
HasGetTime(timestamp) == timestamp.kind = "Date"

SessionDecisions(sessionId) == {k \in DOMAIN decisions : decisions[k].sessionId = sessionId}

\* getDecisions sorts with (a, b) => b.timestamp.getTime() - a.timestamp.getTime():
\* the comparator runs once the filtered array has two elements, and throws
\* a TypeError on a timestamp that is no Date.
getDecisionsThrows(sessionId) ==
  /\ Cardinality(SessionDecisions(sessionId)) >= 2
  /\ \E k \in SessionDecisions(sessionId) : ~HasGetTime(decisions[k].timestamp)

getDecisions(sessionId) == SessionDecisions(sessionId)

createDecision(id, decision) ==
  /\ decisions' = (id :> Merge(decision, [id |-> id])) @@ decisions
  /\ sessions' =
       IF Has(sessions, decision.sessionId)
       THEN updateSession(sessions, decision.sessionId,
              [metrics |-> [sessions[decision.sessionId].metrics EXCEPT
                 !.iterationCount = @ + 1]])
       ELSE sessions

createToolCall(id, insertToolCall) ==
  LET sid == insertToolCall.sessionId
      toolCall == Merge(Merge([id |-> id], insertToolCall),
                        [status |-> "pending",
                         mode |-> IF Has(sessions, sid) THEN sessions[sid].currentMode
                                  ELSE "action",
                         timestamp |-> now])
  IN /\ toolCalls' = (id :> toolCall) @@ toolCalls
     /\ sessions' =
          IF Has(sessions, sid)
          THEN updateSession(sessions, sid,
                 [metrics |-> [sessions[sid].metrics EXCEPT !.toolCallsMade = @ + 1]])
          ELSE sessions

(***************************************************************************)
(* Observation of the storage calls made for each session                  *)
(***************************************************************************)
NoCalls ==
  [createArtifact |-> 0, updateArtifactUpdate |-> 0, updateArtifactRewrite |-> 0,
   createDecision |-> 0, createToolCall |-> 0, patched |-> FALSE]

\* One more call of the given kind for the session, if it is stored.
Called(sid, call) ==
  calls' = IF sid \in DOMAIN calls THEN [calls EXCEPT ![sid][call] = @ + 1] ELSE calls

(***************************************************************************)
(* Routes                                                                  *)
(***************************************************************************)
Respond(op, req, status, body) ==
  response' = [op |-> op, req |-> req, read |-> <<>>, status |-> status, body |-> body]

\* A response together with what the handler read from the store on the way.
RespondHavingRead(op, req, read, status, body) ==
  response' = [op |-> op, req |-> req, read |-> read, status |-> status, body |-> body]

WebSocket == [CONNECTING |-> 0, OPEN |-> 1, CLOSING |-> 2, CLOSED |-> 3]

\* Mutant: the message goes to every client of the set, whatever its state.
broadcast_ignoresReadyState(message) ==
  [ws \in DOMAIN sockets |->
     IF ws \in clients
     THEN [sockets[ws] EXCEPT !.sent = Append(@, message)]
     ELSE sockets[ws]]

\* The sockets after broadcast(event, data): send(message) on each client of
\* the set that is OPEN.
broadcast(message) ==
  [ws \in DOMAIN sockets |->
     IF ws \in clients /\ sockets[ws].readyState = WebSocket.OPEN
     THEN [sockets[ws] EXCEPT !.sent = Append(@, message)]
     ELSE sockets[ws]]

\* A handler that calls broadcast(event, data) once.
Broadcast(event, data) ==
  /\ broadcasts' = <<[event |-> event, data |-> data]>>
  /\ sockets' = broadcast([event |-> event, data |-> data])

\* A handler that returns without calling broadcast.
NoBroadcast ==
  /\ broadcasts' = <<>>
  /\ UNCHANGED sockets

\* POST /api/sessions
PostSessions(valid) ==
  IF ~valid
  THEN /\ Respond("POST /api/sessions", [valid |-> valid], 400, [message |-> "invalid"])
       /\ NoBroadcast
       /\ UNCHANGED <<store, now, remembered, callers, calls, microtasks, clients>>
  ELSE /\ ids.session < MaxSessions
       /\ LET id == ids.session + 1
              session == createSession(id)
          IN /\ sessions' = (id :> session) @@ sessions
             /\ ids' = [ids EXCEPT !.session = id]
             /\ Respond("POST /api/sessions", [valid |-> valid], 201, session)
             /\ Broadcast("session:created", session)
             /\ calls' = (id :> NoCalls) @@ calls
       /\ UNCHANGED <<artifacts, decisions, toolCalls, now, remembered, callers, microtasks, clients>>

\* PATCH /api/sessions/:id (the body is not validated)
PatchSession(id, body) ==
  /\ sessions' = updateSession(sessions, id, body)
  /\ IF Has(sessions, id)
     THEN /\ Respond("PATCH /api/sessions/:id", [id |-> id, body |-> body], 200, sessions'[id])
          /\ Broadcast("session:updated", sessions'[id])
     ELSE /\ Respond("PATCH /api/sessions/:id", [id |-> id, body |-> body], 404,
                     [message |-> "Session not found"])
          /\ NoBroadcast
  /\ calls' = IF Has(sessions, id) /\ id \in DOMAIN calls
              THEN [calls EXCEPT ![id].patched = TRUE] ELSE calls
  /\ UNCHANGED <<artifacts, decisions, toolCalls, ids, now, remembered, callers, microtasks, clients>>

\* Mutant: deleting a session deletes its artifacts with it.
DeleteSession_cascades(id) ==
  /\ sessions' = deleteSession(sessions, id)
  /\ artifacts' = [a \in {k \in DOMAIN artifacts : artifacts[k].sessionId # id} |->
                     artifacts[a]]
  /\ IF Has(sessions, id)
     THEN /\ Respond("DELETE /api/sessions/:id", [id |-> id], 204, [id |-> id])
          /\ Broadcast("session:deleted", [id |-> id])
     ELSE /\ Respond("DELETE /api/sessions/:id", [id |-> id], 404,
                     [message |-> "Session not found"])
          /\ NoBroadcast
  /\ calls' = [k \in (DOMAIN calls) \ {id} |-> calls[k]]
  /\ UNCHANGED <<decisions, toolCalls, ids, now, remembered, callers, microtasks, clients>>

\* DELETE /api/sessions/:id
DeleteSession(id) ==
  /\ sessions' = deleteSession(sessions, id)
  /\ IF Has(sessions, id)
     THEN /\ Respond("DELETE /api/sessions/:id", [id |-> id], 204, [id |-> id])
          /\ Broadcast("session:deleted", [id |-> id])
     ELSE /\ Respond("DELETE /api/sessions/:id", [id |-> id], 404,
                     [message |-> "Session not found"])
          /\ NoBroadcast
  /\ calls' = [k \in (DOMAIN calls) \ {id} |-> calls[k]]
  /\ UNCHANGED <<artifacts, decisions, toolCalls, ids, now, remembered, callers, microtasks, clients>>

\* POST /api/artifacts
PostArtifacts(valid, body) ==
  IF ~valid
  THEN /\ Respond("POST /api/artifacts", [valid |-> valid, body |-> body], 400,
                  [message |-> "invalid"])
       /\ NoBroadcast
       /\ UNCHANGED <<store, now, remembered, callers, calls, microtasks, clients>>
  ELSE /\ ids.artifact < MaxArtifacts
       /\ LET id == ids.artifact + 1
          IN /\ createArtifact(id, body)
             /\ ids' = [ids EXCEPT !.artifact = id]
             /\ Respond("POST /api/artifacts", [valid |-> valid, body |-> body], 201,
                        artifacts'[id])
             /\ Broadcast("artifact:created", artifacts'[id])
             /\ Called(body.sessionId, "createArtifact")
       /\ UNCHANGED <<decisions, toolCalls, now, remembered, callers, microtasks, clients>>

\* Mutant: applying a change to an artifact logs a decision for it.
PatchArtifact_recordsDecision(id, valid, body) ==
  LET req == [id |-> id, valid |-> valid, body |-> body]
  IN IF ~valid
     THEN /\ Respond("PATCH /api/artifacts/:id", req, 400, [message |-> "invalid"])
          /\ NoBroadcast
          /\ UNCHANGED <<store, now, remembered, callers, calls, microtasks, clients>>
     ELSE IF ~Has(artifacts, id)
     THEN /\ Respond("PATCH /api/artifacts/:id", req, 404, [message |-> "Artifact not found"])
          /\ NoBroadcast
          /\ UNCHANGED <<store, now, remembered, callers, calls, microtasks, clients>>
     ELSE /\ artifacts[id].version < MaxVersion
          /\ updateArtifact(id, body)
          /\ decisions' = ((ids.decision + 1) :>
                             [id |-> ids.decision + 1, sessionId |-> artifacts[id].sessionId,
                              artifactId |-> id, type |-> body.decisionType,
                              timestamp |-> [kind |-> "Date", ms |-> now]]) @@ decisions
          /\ ids' = [ids EXCEPT !.decision = @ + 1]
          /\ Respond("PATCH /api/artifacts/:id", req, 200, artifacts'[id])
          /\ Broadcast("artifact:updated", artifacts'[id])
          /\ Called(artifacts[id].sessionId,
                    IF body.decisionType = "update" THEN "updateArtifactUpdate"
                    ELSE "updateArtifactRewrite")
          /\ UNCHANGED <<toolCalls, now, remembered, callers, microtasks, clients>>

\* PATCH /api/artifacts/:id
PatchArtifact(id, valid, body) ==
  LET req == [id |-> id, valid |-> valid, body |-> body]
  IN IF ~valid
     THEN /\ Respond("PATCH /api/artifacts/:id", req, 400, [message |-> "invalid"])
          /\ NoBroadcast
          /\ UNCHANGED <<store, now, remembered, callers, calls, microtasks, clients>>
     ELSE IF ~Has(artifacts, id)
     THEN /\ Respond("PATCH /api/artifacts/:id", req, 404, [message |-> "Artifact not found"])
          /\ NoBroadcast
          /\ UNCHANGED <<store, now, remembered, callers, calls, microtasks, clients>>
     ELSE /\ artifacts[id].version < MaxVersion
          /\ updateArtifact(id, body)
          /\ Respond("PATCH /api/artifacts/:id", req, 200, artifacts'[id])
          /\ Broadcast("artifact:updated", artifacts'[id])
          /\ Called(artifacts[id].sessionId,
                    IF body.decisionType = "update" THEN "updateArtifactUpdate"
                    ELSE "updateArtifactRewrite")
          /\ UNCHANGED <<decisions, toolCalls, ids, now, remembered, callers, microtasks, clients>>

\* DELETE /api/artifacts/:id
DeleteArtifact(id) ==
  /\ artifacts' = deleteArtifact(artifacts, id)
  /\ IF Has(artifacts, id)
     THEN /\ Respond("DELETE /api/artifacts/:id", [id |-> id], 204, [id |-> id])
          /\ Broadcast("artifact:deleted", [id |-> id])
     ELSE /\ Respond("DELETE /api/artifacts/:id", [id |-> id], 404,
                     [message |-> "Artifact not found"])
          /\ NoBroadcast
  /\ UNCHANGED <<sessions, decisions, toolCalls, ids, now, remembered, callers, calls, microtasks, clients>>

\* The handler of POST /api/decisions (the body is not validated).
LogDecision(body) ==
  /\ ids.decision < MaxDecisions
  /\ LET id == ids.decision + 1
     IN /\ createDecision(id, body)
        /\ ids' = [ids EXCEPT !.decision = id]
        /\ Respond("POST /api/decisions", [body |-> body], 201, decisions'[id])
        /\ Broadcast("decision:created", decisions'[id])
        /\ Called(body.sessionId, "createDecision")
  /\ UNCHANGED <<artifacts, toolCalls, now, remembered, microtasks, clients>>

\* POST /api/decisions
PostDecisions(body) ==
  /\ LogDecision(body)
  /\ UNCHANGED callers

\* POST /api/tool-calls
PostToolCalls(valid, body) ==
  IF ~valid
  THEN /\ Respond("POST /api/tool-calls", [valid |-> valid, body |-> body], 400,
                  [message |-> "invalid"])
       /\ NoBroadcast
       /\ UNCHANGED <<store, now, remembered, callers, calls, microtasks, clients>>
  ELSE /\ ids.toolCall < MaxToolCalls
       /\ LET id == ids.toolCall + 1
          IN /\ createToolCall(id, body)
             /\ ids' = [ids EXCEPT !.toolCall = id]
             /\ Respond("POST /api/tool-calls", [valid |-> valid, body |-> body], 201,
                        toolCalls'[id])
             /\ Broadcast("tool-call:created", toolCalls'[id])
             /\ Called(body.sessionId, "createToolCall")
       /\ UNCHANGED <<artifacts, decisions, now, remembered, callers, microtasks, clients>>

\* new Date(d.timestamp).getTime() is NaN for an absent timestamp, and every
\* comparison with NaN is false.
\* Mutant: a decision exactly one hour old still counts.
WithinLastHour_inclusive(timestamp) ==
  /\ timestamp.kind \in {"string", "Date"}
  /\ now - timestamp.ms <= WINDOW_MS

WithinLastHour(timestamp) ==
  /\ timestamp.kind \in {"string", "Date"}
  /\ now - timestamp.ms < WINDOW_MS

recentUpdates(sessionId, artifactId) ==
  {k \in getDecisions(sessionId) :
     /\ decisions[k].artifactId = artifactId
     /\ decisions[k].type = "update"
     /\ WithinLastHour(decisions[k].timestamp)}

\* The response of POST /api/analyze-change.
AnalyzeRespond(artifactId, newContent) ==
  LET req == [artifactId |-> artifactId, newContent |-> newContent]
  IN IF ~Has(artifacts, artifactId)
     THEN Respond("POST /api/analyze-change", req, 404, [message |-> "Artifact not found"])
     ELSE IF ~Has(sessions, artifacts[artifactId].sessionId)
     THEN Respond("POST /api/analyze-change", req, 404, [message |-> "Session not found"])
     ELSE LET artifact == artifacts[artifactId]
              session == sessions[artifact.sessionId]
              stats == DiffStats(artifact.content, newContent)
              read == [content |-> artifact.content, config |-> session.config]
          IN IF getDecisionsThrows(session.id)
             THEN RespondHavingRead("POST /api/analyze-change", req, read, 500,
                    [message |-> "TypeError: getTime is not a function"])
             ELSE RespondHavingRead("POST /api/analyze-change", req, read, 200,
                    Recommendation(stats.linesChanged, stats.locationsChanged,
                                   Cardinality(recentUpdates(session.id, artifactId)),
                                   session.config))

\* Mutant: an analysis counts as activity of the artifact's session.
AnalyzeChange_touchesSession(artifactId, newContent) ==
  /\ AnalyzeRespond(artifactId, newContent)
  /\ NoBroadcast
  /\ sessions' = IF Has(artifacts, artifactId)
                 THEN updateSession(sessions, artifacts[artifactId].sessionId, <<>>)
                 ELSE sessions
  /\ UNCHANGED <<artifacts, decisions, toolCalls, ids, now, remembered, callers, calls, microtasks, clients>>

\* POST /api/analyze-change
AnalyzeChange(artifactId, newContent) ==
  /\ AnalyzeRespond(artifactId, newContent)
  /\ NoBroadcast
  /\ UNCHANGED <<store, now, remembered, callers, calls, microtasks, clients>>

\* How many callers hold an unlogged 'update' recommendation for the artifact.
Holding(artifactId) == IF artifactId \in DOMAIN callers THEN callers[artifactId] ELSE 0

\* A caller asks for an analysis (POST /api/analyze-change) and keeps the
\* answer when it is 'update'.
CallerAnalyzes(artifactId, newContent) ==
  /\ Holding(artifactId) < MaxCallers
  /\ AnalyzeRespond(artifactId, newContent)
  /\ NoBroadcast
  /\ callers' = IF response'.status = 200 /\ response'.body.decisionType = "update"
                THEN (artifactId :> Holding(artifactId) + 1) @@ callers
                ELSE callers
  /\ UNCHANGED <<store, now, remembered, calls, microtasks, clients>>

\* A caller that holds an 'update' recommendation for the artifact logs the
\* update decision (POST /api/decisions), stamped with the current time.
CallerRecords(artifactId) ==
  /\ Holding(artifactId) > 0
  /\ Has(artifacts, artifactId)
  /\ LogDecision([sessionId |-> artifacts[artifactId].sessionId,
                  artifactId |-> artifactId, type |-> "update",
                  timestamp |-> [kind |-> "string", ms |-> now]])
  /\ callers' = [callers EXCEPT ![artifactId] = @ - 1]

\* Time passes between requests.
Tick ==
  /\ now < MaxTicks * WINDOW_MS
  /\ now' = now + WINDOW_MS
  /\ UNCHANGED <<store, response, broadcasts, remembered, callers, calls, microtasks, clients,
                 sockets>>

(***************************************************************************)
(* Request inputs                                                          *)
(***************************************************************************)
Alphabet == {"a", NL}

StringsUpTo(n) == UNION {[1..k -> Alphabet] : k \in 0..n}

\* The decimal digits of a number below 100, one character each.
Digits(n) == IF n < 10 THEN <<ToString(n)>> ELSE <<ToString(n \div 10), ToString(n % 10)>>

Content32 == Join([i \in 1..32 |-> Digits(i)])

ExampleABC == Join(<<<<"a">>, <<"b">>, <<"c">>>>)
ExampleAXC == Join(<<<<"a">>, <<"x">>, <<"c">>>>)
ExampleABCDE == Join(<<<<"a">>, <<"b">>, <<"c">>, <<"d">>, <<"e">>>>)
ExampleAXYZE == Join(<<<<"a">>, <<"X">>, <<"Y">>, <<"Z">>, <<"e">>>>)
ExampleXBCDY == Join(<<<<"x">>, <<"b">>, <<"c">>, <<"d">>, <<"y">>>>)

ExampleContents ==
  {ExampleABC, ExampleAXC, ExampleABCDE, ExampleAXYZE, ExampleXBCDY, Content32}

\* Contents of the diff specification: every short text and the examples.
DiffContents == StringsUpTo(MaxChars) \cup ExampleContents

\* Contents of the store specification.
StoreContents == {<<"a">>, <<NL, NL>>, <<"a", NL, NL, "a">>}

\* Contents on both sides of the promotion bounds: 20 and 21 lines, 1500 and
\* 1501 characters.
Lines20 == Join([i \in 1..PROMOTE_LINES |-> <<"a">>])
Lines21 == Join([i \in 1..(PROMOTE_LINES + 1) |-> <<"a">>])
Chars1500 == [i \in 1..PROMOTE_CHARS |-> "a"]
Chars1501 == [i \in 1..(PROMOTE_CHARS + 1) |-> "a"]

PromotionContents == {Lines20, Lines21, Chars1500, Chars1501}

\* updateArtifactSchema: decisionType is 'update' or 'rewrite'.
updateArtifactSchema(body) == body.decisionType \in {"update", "rewrite"}

\* Bodies of PATCH /api/artifacts/:id: every content with either decision
\* type, and one the schema rejects.
ArtifactPatches ==
  {[content |-> c, decisionType |-> t] : c \in PromotionContents, t \in {"update", "rewrite"}}
    \cup {[content |-> <<"a">>, decisionType |-> "create"]}

\* Contents on both sides of the default thresholds: against the one line
\* "b", 20 and 21 lines change at one location; against eleven lines "a",
\* every other line changes, at five and at six locations.
Lines11 == Join([i \in 1..11 |-> <<"a">>])
FiveRuns == Join([i \in 1..11 |-> IF i % 2 = 0 /\ i <= 10 THEN <<"b">> ELSE <<"a">>])
SixRuns == Join([i \in 1..11 |-> IF i % 2 = 1 THEN <<"b">> ELSE <<"a">>])

ThresholdPriors == {<<"b">>, Lines11}

ThresholdProposals == {Lines20, Lines21, FiveRuns, SixRuns}

\* Bodies of PATCH /api/artifacts/:id of the metrics specification: an update
\* to one line, a rewrite to two lines, and a body the schema rejects.
MetricPatches ==
  {[content |-> <<"a">>, decisionType |-> "update"],
   [content |-> <<"a", NL, "a">>, decisionType |-> "rewrite"],
   [content |-> <<"a">>, decisionType |-> "create"]}

Config(maxIterations, maxLines, maxLocations) ==
  [maxIterationsPerUpdate |-> maxIterations, maxLinesForUpdate |-> maxLines,
   maxLocationsForUpdate |-> maxLocations]

\* Configurations a PATCH /api/sessions/:id body may carry: tight bounds, and
\* one negative threshold at a time.
PatchConfigs ==
  {Config(1, 2, 1), Config(1, 1, 1),
   Config(-1, 20, 5), Config(4, -1, 5), Config(4, 20, -1)}

PatchBodies == {[config |-> c] : c \in PatchConfigs}

\* The bodies that carry a tight configuration.
TwiceBodies == {[config |-> Config(1, 2, 1)], [config |-> Config(1, 1, 1)]}

DecisionBodies ==
  {[sessionId |-> s, artifactId |-> a, type |-> t, timestamp |-> ts] :
     s \in 1..ids.session, a \in 1..ids.artifact, t \in {"update", "rewrite"},
     ts \in {[kind |-> "string", ms |-> now], [kind |-> "absent", ms |-> 0]}}

\* Bodies of POST /api/decisions around an update of artifact 1 in session 1
\* logged now: the same under a session id that is not the artifact's, for
\* another artifact, of another type, and without a timestamp; and a rewrite
\* of the artifact under a session id that is not the artifact's.
WindowBodies ==
  LET update == [sessionId |-> 1, artifactId |-> 1, type |-> "update",
                 timestamp |-> [kind |-> "string", ms |-> now]]
  IN {update,
      [update EXCEPT !.sessionId = 0],
      [update EXCEPT !.artifactId = 0],
      [update EXCEPT !.type = "rewrite"],
      [update EXCEPT !.type = "rewrite", !.sessionId = 0],
      [update EXCEPT !.type = "create"],
      [update EXCEPT !.type = "delete"],
      [update EXCEPT !.timestamp = [kind |-> "absent", ms |-> 0]]}

(***************************************************************************)
(* Specifications                                                          *)
(***************************************************************************)
Init ==
  /\ microtasks = <<>>
  /\ clients = {}
  /\ sockets = <<>>
  /\ sessions = <<>>
  /\ artifacts = <<>>
  /\ decisions = <<>>
  /\ toolCalls = <<>>
  /\ ids = [session |-> 0, artifact |-> 0, decision |-> 0, toolCall |-> 0]
  /\ callers = <<>>
  /\ calls = <<>>
  /\ now = 0
  /\ response = [op |-> "none", req |-> <<>>, read |-> <<>>, status |-> 0, body |-> <<>>]
  /\ broadcasts = <<>>
  /\ remembered = <<>>

Next ==
  \/ \E valid \in BOOLEAN : PostSessions(valid)
  \/ \E id \in 0..ids.session, body \in PatchBodies : PatchSession(id, body)
  \/ \E id \in 0..ids.session : DeleteSession(id)
  \/ \E valid \in BOOLEAN, sid \in 0..ids.session, content \in StoreContents :
       PostArtifacts(valid, [sessionId |-> sid, content |-> content])
  \/ \E id \in 0..ids.artifact, valid \in BOOLEAN, content \in StoreContents,
        decisionType \in {"update", "rewrite"} :
       PatchArtifact(id, valid, [content |-> content, decisionType |-> decisionType])
  \/ \E id \in 0..ids.artifact : DeleteArtifact(id)
  \/ \E body \in DecisionBodies : PostDecisions(body)
  \/ \E valid \in BOOLEAN, sid \in 0..ids.session :
       PostToolCalls(valid, [sessionId |-> sid, name |-> "read_file"])
  \/ \E artifactId \in 0..ids.artifact, newContent \in StoreContents :
       AnalyzeChange(artifactId, newContent)
  \/ Tick

Spec == Init /\ [][Next]_vars

\* Configurations of the diff specification: the default one, a tight one, and
\* one threshold of zero at a time.
DiffConfigs ==
  {DEFAULT_SESSION_CONFIG, Config(1, 1, 1),
   Config(0, 20, 5), Config(4, 0, 5), Config(4, 20, 0)}

\* The decision engine alone: one session, with the default configuration or
\* a patched one, and one artifact of any content, as POST /api/sessions,
\* PATCH /api/sessions/:id and POST /api/artifacts leave them, then any number
\* of analyses.
InitDiff ==
  /\ microtasks = <<>>
  /\ clients = {}
  /\ sockets = <<>>
  /\ now = 0
  /\ remembered = <<>>
  /\ decisions = <<>>
  /\ toolCalls = <<>>
  /\ ids = [session |-> 1, artifact |-> 1, decision |-> 0, toolCall |-> 0]
  /\ callers = (1 :> 0)
  /\ calls = (1 :> [NoCalls EXCEPT !.createArtifact = 1])
  /\ \E content \in DiffContents, config \in DiffConfigs :
       LET artifact == newArtifact(1, [sessionId |-> 1, content |-> content])
       IN /\ artifacts = (1 :> artifact)
          /\ sessions = (1 :> [createSession(1) EXCEPT
                                 !.config = config,
                                 !.metrics.artifactsCreated = 1,
                                 !.metrics.linesGenerated = artifact.lineCount])
          /\ response = [op |-> "POST /api/artifacts",
                         req |-> [valid |-> TRUE,
                                  body |-> [sessionId |-> 1, content |-> content]],
                         read |-> <<>>, status |-> 201, body |-> artifact]
          /\ broadcasts = <<[event |-> "artifact:created", data |-> artifact]>>

NextDiff == \E newContent \in DiffContents : AnalyzeChange(1, newContent)

SpecDiff == InitDiff /\ [][NextDiff]_vars

\* The decision engine over a live store: one session and one artifact, as
\* POST /api/sessions and POST /api/artifacts leave them; then the session is
\* reconfigured, decisions are logged, time passes, records are deleted and
\* changes are analyzed, in any order.
InitEngine ==
  /\ microtasks = <<>>
  /\ clients = {}
  /\ sockets = <<>>
  /\ now = 0
  /\ remembered = <<>>
  /\ decisions = <<>>
  /\ toolCalls = <<>>
  /\ ids = [session |-> 1, artifact |-> 1, decision |-> 0, toolCall |-> 0]
  /\ callers = (1 :> 0)
  /\ calls = (1 :> [NoCalls EXCEPT !.createArtifact = 1])
  /\ \E content \in StoreContents :
       LET artifact == newArtifact(1, [sessionId |-> 1, content |-> content])
       IN /\ artifacts = (1 :> artifact)
          /\ sessions = (1 :> [createSession(1) EXCEPT
                                 !.metrics.artifactsCreated = 1,
                                 !.metrics.linesGenerated = artifact.lineCount])
          /\ response = [op |-> "POST /api/artifacts",
                         req |-> [valid |-> TRUE,
                                  body |-> [sessionId |-> 1, content |-> content]],
                         read |-> <<>>, status |-> 201, body |-> artifact]
          /\ broadcasts = <<[event |-> "artifact:created", data |-> artifact]>>

NextEngine ==
  \/ \E id \in 0..ids.session, body \in PatchBodies : PatchSession(id, body)
  \/ \E id \in 0..ids.session : DeleteSession(id)
  \/ \E body \in DecisionBodies : PostDecisions(body)
  \/ \E artifactId \in 0..ids.artifact, newContent \in StoreContents :
       AnalyzeChange(artifactId, newContent)
  \/ Tick

SpecEngine == InitEngine /\ [][NextEngine]_vars

\* Configurations of the sessions the callers work on: the default one and a
\* patched one with the tightest cap.
CallerConfigs == {DEFAULT_SESSION_CONFIG, Config(1, 2, 1)}

\* Callers that log an update decision only after an analysis recommended an
\* update, their requests interleaving freely: one session, as POST
\* /api/sessions and PATCH /api/sessions/:id leave it, and one artifact.
InitCallers ==
  /\ microtasks = <<>>
  /\ clients = {}
  /\ sockets = <<>>
  /\ now = 0
  /\ remembered = <<>>
  /\ decisions = <<>>
  /\ toolCalls = <<>>
  /\ ids = [session |-> 1, artifact |-> 1, decision |-> 0, toolCall |-> 0]
  /\ callers = (1 :> 0)
  /\ \E content \in StoreContents, config \in CallerConfigs :
       LET artifact == newArtifact(1, [sessionId |-> 1, content |-> content])
       IN /\ artifacts = (1 :> artifact)
          /\ sessions = (1 :> [createSession(1) EXCEPT
                                 !.config = config,
                                 !.metrics.artifactsCreated = 1,
                                 !.metrics.linesGenerated = artifact.lineCount])
          /\ calls = (1 :> [NoCalls EXCEPT !.createArtifact = 1,
                                           !.patched = (config # DEFAULT_SESSION_CONFIG)])
          /\ response = [op |-> "POST /api/artifacts",
                         req |-> [valid |-> TRUE,
                                  body |-> [sessionId |-> 1, content |-> content]],
                         read |-> <<>>, status |-> 201, body |-> artifact]
          /\ broadcasts = <<[event |-> "artifact:created", data |-> artifact]>>

NextCallers ==
  \/ \E artifactId \in 1..ids.artifact, newContent \in StoreContents :
       CallerAnalyzes(artifactId, newContent)
  \/ \E artifactId \in 1..ids.artifact : CallerRecords(artifactId)
  \/ Tick

SpecCallers == InitCallers /\ [][NextCallers]_vars

\* The artifact store: one session and one artifact of any content, as POST
\* /api/sessions and POST /api/artifacts leave them; then the artifact is
\* updated and rewritten.
InitArtifacts ==
  /\ microtasks = <<>>
  /\ clients = {}
  /\ sockets = <<>>
  /\ now = 0
  /\ remembered = <<>>
  /\ decisions = <<>>
  /\ toolCalls = <<>>
  /\ ids = [session |-> 1, artifact |-> 1, decision |-> 0, toolCall |-> 0]
  /\ callers = (1 :> 0)
  /\ calls = (1 :> [NoCalls EXCEPT !.createArtifact = 1])
  /\ \E content \in PromotionContents :
       LET artifact == newArtifact(1, [sessionId |-> 1, content |-> content])
       IN /\ artifacts = (1 :> artifact)
          /\ sessions = (1 :> [createSession(1) EXCEPT
                                 !.metrics.artifactsCreated = 1,
                                 !.metrics.linesGenerated = artifact.lineCount])
          /\ response = [op |-> "POST /api/artifacts",
                         req |-> [valid |-> TRUE,
                                  body |-> [sessionId |-> 1, content |-> content]],
                         read |-> <<>>, status |-> 201, body |-> artifact]
          /\ broadcasts = <<[event |-> "artifact:created", data |-> artifact]>>

NextArtifacts ==
  \/ \E id \in 1..ids.artifact, body \in ArtifactPatches :
       PatchArtifact(id, updateArtifactSchema(body), body)
  \/ PatchArtifact(0, TRUE, [content |-> <<"a">>, decisionType |-> "update"])

SpecArtifacts == InitArtifacts /\ [][NextArtifacts]_vars

\* Sessions from their creation: the empty store, then sessions are created
\* and reconfigured, artifacts are created in them and changes are analyzed.
NextSessions ==
  \/ \E valid \in BOOLEAN : PostSessions(valid)
  \/ \E id \in 0..ids.session, body \in TwiceBodies : PatchSession(id, body)
  \/ \E valid \in BOOLEAN, sid \in 0..ids.session, content \in ThresholdPriors :
       PostArtifacts(valid, [sessionId |-> sid, content |-> content])
  \/ \E artifactId \in 0..ids.artifact, newContent \in ThresholdProposals :
       AnalyzeChange(artifactId, newContent)

SpecSessions == Init /\ [][NextSessions]_vars

\* The window of recent updates: one session and one artifact; decisions of
\* every form are logged, time passes and changes are analyzed.
NextWindow ==
  \/ \E body \in WindowBodies : PostDecisions(body)
  \/ \E newContent \in StoreContents : AnalyzeChange(1, newContent)
  \/ Tick

SpecWindow == InitEngine /\ [][NextWindow]_vars

\* The metrics of a session: one session, as POST /api/sessions leaves it;
\* then artifacts are created and changed, for this session and for a session
\* id that does not exist, and decisions and tool calls are logged.
InitMetrics ==
  /\ microtasks = <<>>
  /\ clients = {}
  /\ sockets = <<>>
  /\ now = 0
  /\ remembered = <<>>
  /\ artifacts = <<>>
  /\ decisions = <<>>
  /\ toolCalls = <<>>
  /\ ids = [session |-> 1, artifact |-> 0, decision |-> 0, toolCall |-> 0]
  /\ callers = <<>>
  /\ calls = (1 :> NoCalls)
  /\ sessions = (1 :> createSession(1))
  /\ response = [op |-> "POST /api/sessions", req |-> [valid |-> TRUE], read |-> <<>>,
                 status |-> 201, body |-> createSession(1)]
  /\ broadcasts = <<[event |-> "session:created", data |-> createSession(1)]>>

NextMetrics ==
  \/ \E sid \in 0..ids.session :
       PostArtifacts(TRUE, [sessionId |-> sid, content |-> <<"a">>])
  \/ \E id \in 0..ids.artifact, body \in MetricPatches :
       PatchArtifact(id, updateArtifactSchema(body), body)
  \/ PostDecisions([sessionId |-> 1, artifactId |-> 1, type |-> "update",
                    timestamp |-> [kind |-> "string", ms |-> now]])
  \/ \E valid \in BOOLEAN :
       PostToolCalls(valid, [sessionId |-> 1, name |-> "read_file"])

SpecMetrics == InitMetrics /\ [][NextMetrics]_vars

(***************************************************************************)
(* Observation of analyses                                                 *)
(***************************************************************************)
Analyzed == response.op = "POST /api/analyze-change"

Recommended == Analyzed /\ response.status = 200

\* The four inputs of the classification, as the handler obtained them.
InputsOf(r) ==
  [before |-> split(r.read.content), after |-> split(r.req.newContent),
   thresholds |-> r.read.config, recentUpdateCount |-> r.body.currentIterations]

\* Observer step: keep the analysis just answered for a later comparison.
Remember ==
  /\ Recommended
  /\ remembered' = [inputs |-> InputsOf(response), output |-> response.body, at |-> now]
  /\ UNCHANGED <<store, now, response, broadcasts, callers, calls, microtasks, clients,
                 sockets>>

\* The decision engine over a live store, with the observer.
NextTwice ==
  \/ \E body \in TwiceBodies : PatchSession(1, body)
  \/ \E body \in DecisionBodies : PostDecisions(body)
  \/ \E newContent \in StoreContents : AnalyzeChange(1, newContent)
  \/ Tick
  \/ Remember

SpecTwice == InitEngine /\ [][NextTwice]_vars

(***************************************************************************)
(* Properties                                                              *)
(***************************************************************************)
rec == response.body

cfg == response.read.config

Before == split(response.read.content)

After == split(response.req.newContent)

NonNegative(config) ==
  /\ config.maxLinesForUpdate >= 0
  /\ config.maxLocationsForUpdate >= 0
  /\ config.maxIterationsPerUpdate >= 0

AnyNegative(config) ==
  \/ config.maxLinesForUpdate < 0
  \/ config.maxLocationsForUpdate < 0
  \/ config.maxIterationsPerUpdate < 0

\* Index i (from 0) differs: the two lines are not the same string, or one of
\* the texts has no line i.
Differs(before, after, i) ==
  IF i >= Len(before) \/ i >= Len(after) THEN TRUE ELSE before[i + 1] # after[i + 1]

DifferingIndices(before, after) ==
  {i \in 0..(Max(Len(before), Len(after)) - 1) : Differs(before, after, i)}

\* The first index of every maximal run of differing indices.
RunStarts(before, after) ==
  {i \in DifferingIndices(before, after) : i = 0 \/ (i - 1) \notin DifferingIndices(before, after)}

Mentions(piece) == \E i \in 1..Len(rec.reasoning) : rec.reasoning[i] = piece

MentionsClause(clause) ==
  \E i \in 1..Len(rec.reasoning) :
     /\ i + Len(clause) - 1 <= Len(rec.reasoning)
     /\ SubSeq(rec.reasoning, i, i + Len(clause) - 1) = clause

\* C1: with non-negative thresholds, the analysis recommends 'update' exactly
\* when linesChanged <= maxLinesForUpdate and locationsChanged <=
\* maxLocationsForUpdate and the recent-update count < maxIterationsPerUpdate,
\* and 'rewrite' in every other case.
C1_DecisionRule ==
  (Recommended /\ NonNegative(cfg)) =>
     rec.decisionType =
       IF /\ rec.linesChanged <= cfg.maxLinesForUpdate
          /\ rec.locationsChanged <= cfg.maxLocationsForUpdate
          /\ rec.currentIterations < cfg.maxIterationsPerUpdate
       THEN "update" ELSE "rewrite"

\* A rewrite forced by the locations bound alone.
C1_Witness ==
  /\ Recommended /\ NonNegative(cfg)
  /\ rec.decisionType = "rewrite"
  /\ rec.linesChanged <= cfg.maxLinesForUpdate
  /\ rec.locationsChanged > cfg.maxLocationsForUpdate
  /\ rec.currentIterations < cfg.maxIterationsPerUpdate

\* C2: a recent-update count equal to maxIterationsPerUpdate gives 'rewrite'
\* even for an empty diff; a count of maxIterationsPerUpdate - 1 with an empty
\* diff (and non-negative bounds) gives 'update'.
C2_IterationCapBoundary ==
  Recommended =>
     /\ rec.currentIterations = cfg.maxIterationsPerUpdate => rec.decisionType = "rewrite"
     /\ (/\ NonNegative(cfg)
         /\ rec.currentIterations = cfg.maxIterationsPerUpdate - 1
         /\ rec.linesChanged = 0 /\ rec.locationsChanged = 0)
        => rec.decisionType = "update"

\* The cap reached with an empty diff.
C2_Witness ==
  /\ Recommended
  /\ rec.currentIterations = cfg.maxIterationsPerUpdate
  /\ rec.linesChanged = 0 /\ rec.locationsChanged = 0
  /\ rec.decisionType = "rewrite"

C4_AnswerIgnoresClock ==
  [][(Recommended /\ Recommended' /\ response'.req = response.req /\ store' = store)
       => response'.body = response.body]_vars

\* C4, amended: the recommendation (decision, statistics, rationale) is
\* determined by (before, after, thresholds, recentUpdateCount): two analyses
\* with the same values of these four get the same recommendation, whatever
\* else the store holds and whatever the time.
C4_SameInputsSameRecommendation ==
  (Recommended /\ remembered # <<>> /\ remembered.inputs = InputsOf(response))
     => remembered.output = rec

\* Two analyses with the same inputs, at different times, after a decision
\* has been logged.
C4_Witness ==
  /\ Recommended /\ remembered # <<>>
  /\ remembered.inputs = InputsOf(response)
  /\ remembered.at # now
  /\ DOMAIN decisions # {}

\* C5: an analyze-change request, whatever it answers, changes no stored
\* session, artifact or decision and broadcasts no event.
C5_AnalysisHasNoSideEffects ==
  [][response'.op = "POST /api/analyze-change" =>
       /\ sessions' = sessions
       /\ artifacts' = artifacts
       /\ decisions' = decisions
       /\ broadcasts' = <<>>]_vars

\* A recommendation given after time has passed since the session's last
\* activity, with a decision on record.
C5_Witness ==
  /\ Recommended
  /\ DOMAIN decisions # {}
  /\ \E id \in DOMAIN sessions : sessions[id].lastActivityAt < now

\* C6: linesChanged is the number of indices below max(len(before),
\* len(after)) at which the two lines differ, an index past the end of the
\* shorter text counting as different.
C6_LinesChanged ==
  Recommended =>
     /\ rec.linesChanged = Cardinality(DifferingIndices(Before, After))
     /\ (response.read.content = ExampleABC /\ response.req.newContent = ExampleAXC)
        => rec.linesChanged = 1
     /\ (response.read.content = ExampleABCDE /\ response.req.newContent = ExampleAXYZE)
        => rec.linesChanged = 3

\* [a,b,c,d,e] against [a,X,Y,Z,e].
C6_Witness ==
  /\ Recommended
  /\ response.read.content = ExampleABCDE /\ response.req.newContent = ExampleAXYZE
  /\ rec.linesChanged = 3

\* C7: locationsChanged is the number of maximal runs of differing indices.
C7_LocationsChanged ==
  Recommended =>
     /\ rec.locationsChanged = Cardinality(RunStarts(Before, After))
     /\ (response.read.content = ExampleABCDE /\ response.req.newContent = ExampleXBCDY)
        => rec.locationsChanged = 2
     /\ (response.read.content = ExampleABCDE /\ response.req.newContent = ExampleAXYZE)
        => rec.locationsChanged = 1

\* Two single-line changes, at index 0 and at index 4.
C7_Witness ==
  /\ Recommended
  /\ response.read.content = ExampleABCDE /\ response.req.newContent = ExampleXBCDY
  /\ rec.locationsChanged = 2

\* C8: a proposed content identical to the prior content has statistics
\* {0, 0}, and is an 'update' whenever the thresholds are non-negative and the
\* recent-update count is below maxIterationsPerUpdate.
C8_ZeroChange ==
  (Recommended /\ response.req.newContent = response.read.content) =>
     /\ rec.linesChanged = 0
     /\ rec.locationsChanged = 0
     /\ (NonNegative(cfg) /\ rec.currentIterations < cfg.maxIterationsPerUpdate)
        => rec.decisionType = "update"

\* A text of several lines analyzed against itself under the tightest cap.
C8_Witness ==
  /\ Recommended
  /\ response.req.newContent = response.read.content
  /\ Len(Before) >= 2
  /\ cfg.maxIterationsPerUpdate = 1
  /\ rec.decisionType = "update"

\* C9 as stated: an empty prior content against a non-empty proposed content
\* of L lines gives {linesChanged: L, locationsChanged: 1}.
C9_CreationCountsEveryLine ==
  (Recommended /\ response.read.content = <<>> /\ response.req.newContent # <<>>) =>
     /\ rec.linesChanged = Len(After)
     /\ rec.locationsChanged = 1

\* C9, amended: the empty prior content is one empty line, so the statistics
\* are {L, 1} when the first proposed line is not empty and {L - 1, 1} when
\* it is; 32 lines under the default thresholds with no recent update are a
\* 'rewrite'.
C9_CreationCountsLinesButAnEmptyFirst ==
  (Recommended /\ response.read.content = <<>> /\ response.req.newContent # <<>>) =>
     /\ rec.linesChanged = IF After[1] # <<>> THEN Len(After) ELSE Len(After) - 1
     /\ rec.locationsChanged = 1
     /\ (response.req.newContent = Content32 /\ cfg = DEFAULT_SESSION_CONFIG)
        => (rec.linesChanged = 32 /\ rec.decisionType = "rewrite")

\* 32 lines proposed for an empty artifact under the default thresholds.
C9_Witness ==
  /\ Recommended
  /\ response.read.content = <<>> /\ response.req.newContent = Content32
  /\ cfg = DEFAULT_SESSION_CONFIG /\ rec.currentIterations = 0
  /\ rec.linesChanged = 32 /\ rec.locationsChanged = 1
  /\ rec.decisionType = "rewrite"

\* C10: the rationale of a 'rewrite' names exactly the violated conditions:
\* the lines clause iff linesChanged > maxLinesForUpdate, the locations
\* clause iff locationsChanged > maxLocationsForUpdate, the iterations clause
\* iff the recent-update count >= maxIterationsPerUpdate, and at least one.
C10_RewriteRationale ==
  (Recommended /\ rec.decisionType = "rewrite") =>
     /\ Mentions(" lines exceeds ") <=> rec.linesChanged > cfg.maxLinesForUpdate
     /\ Mentions(" locations exceeds ") <=> rec.locationsChanged > cfg.maxLocationsForUpdate
     /\ Mentions("Max iterations reached")
        <=> rec.currentIterations >= cfg.maxIterationsPerUpdate
     /\ rec.linesChanged > cfg.maxLinesForUpdate =>
          MentionsClause(<<ToString(rec.linesChanged), " lines exceeds ",
                           ToString(cfg.maxLinesForUpdate), " limit">>)
     /\ rec.locationsChanged > cfg.maxLocationsForUpdate =>
          MentionsClause(<<ToString(rec.locationsChanged), " locations exceeds ",
                           ToString(cfg.maxLocationsForUpdate), " limit">>)
     /\ \/ Mentions(" lines exceeds ")
        \/ Mentions(" locations exceeds ")
        \/ Mentions("Max iterations reached")

\* Only the lines bound is exceeded, and the rationale does not mention
\* locations.
C10_Witness ==
  /\ Recommended /\ rec.decisionType = "rewrite"
  /\ rec.linesChanged > cfg.maxLinesForUpdate
  /\ rec.locationsChanged <= cfg.maxLocationsForUpdate
  /\ rec.currentIterations < cfg.maxIterationsPerUpdate
  /\ Mentions(" lines exceeds ")
  /\ ~Mentions(" locations exceeds ")
  /\ ~Mentions("Max iterations reached")

\* C11: the rationale of an 'update' reports the measured linesChanged and
\* locationsChanged and the iteration number, the recent-update count + 1, out
\* of maxIterationsPerUpdate; that iteration number is at least 1 and at most
\* maxIterationsPerUpdate.
C11_UpdateRationale ==
  (Recommended /\ rec.decisionType = "update") =>
     /\ rec.linesChanged = Cardinality(DifferingIndices(Before, After))
     /\ rec.reasoning =
          <<"Change is small enough (", ToString(rec.linesChanged), " lines, ",
            ToString(rec.locationsChanged), " locations) for an update. Iteration ",
            ToString(rec.currentIterations + 1), "/", ToString(cfg.maxIterationsPerUpdate),
            ".">>
     /\ rec.maxIterations = cfg.maxIterationsPerUpdate
     /\ \E n \in 1..cfg.maxIterationsPerUpdate : rec.reasoning[6] = ToString(n)

\* The second update of four, after one logged update, for a change of one
\* line or more.
C11_Witness ==
  /\ Recommended /\ rec.decisionType = "update"
  /\ rec.currentIterations = 1 /\ cfg.maxIterationsPerUpdate = 4
  /\ rec.linesChanged >= 1
  /\ rec.reasoning[6] = "2" /\ rec.reasoning[8] = "4"

\* C12: monotonicity. If a change was classified 'rewrite', a change with the
\* same thresholds and recent-update count whose linesChanged and
\* locationsChanged are both at least as large is classified 'rewrite' too.
C12_Monotonicity ==
  (/\ Recommended /\ remembered # <<>>
   /\ remembered.output.decisionType = "rewrite"
   /\ remembered.inputs.thresholds = cfg
   /\ remembered.inputs.recentUpdateCount = rec.currentIterations
   /\ rec.linesChanged >= remembered.output.linesChanged
   /\ rec.locationsChanged >= remembered.output.locationsChanged)
  => rec.decisionType = "rewrite"

\* A rewrite forced by the bounds of the diff alone, then a change at more
\* locations under the same thresholds and count.
C12_Witness ==
  /\ Recommended /\ remembered # <<>>
  /\ remembered.output.decisionType = "rewrite"
  /\ remembered.inputs.thresholds = cfg
  /\ remembered.inputs.recentUpdateCount = rec.currentIterations
  /\ rec.currentIterations < cfg.maxIterationsPerUpdate
  /\ rec.linesChanged >= remembered.output.linesChanged
  /\ rec.locationsChanged > remembered.output.locationsChanged
  /\ rec.decisionType = "rewrite"

\* C13: totality. With non-negative thresholds, zero included, and any prior
\* and proposed contents, empty or of different lengths, the analysis of an
\* existing artifact answers with exactly one of 'update' and 'rewrite' and
\* no error; maxIterationsPerUpdate = 0 makes every change a 'rewrite', and
\* maxLinesForUpdate = 0 (or maxLocationsForUpdate = 0) allows 'update' only
\* for an empty diff.
C13_Totality ==
  (Analyzed /\ response.read # <<>> /\ NonNegative(cfg)) =>
     /\ response.status = 200
     /\ rec.decisionType \in {"update", "rewrite"}
     /\ cfg.maxIterationsPerUpdate = 0 => rec.decisionType = "rewrite"
     /\ (cfg.maxLinesForUpdate = 0 \/ cfg.maxLocationsForUpdate = 0) =>
          (rec.decisionType = "update" <=> Before = After)

\* A zero lines bound, an empty prior content and a longer proposed content.
C13_Witness ==
  /\ Recommended
  /\ cfg.maxLinesForUpdate = 0
  /\ response.read.content = <<>>
  /\ Len(After) > Len(Before)
  /\ rec.decisionType = "rewrite"

\* The update decisions on record for the artifact that are less than one
\* hour old.
UpdatesInWindow(artifactId) ==
  {k \in DOMAIN decisions :
     /\ decisions[k].artifactId = artifactId
     /\ decisions[k].type = "update"
     /\ decisions[k].timestamp.kind = "string"
     /\ now - decisions[k].timestamp.ms < WINDOW_MS}

\* C14 as stated: when update decisions are logged only after an analysis
\* recommended 'update', the number of update decisions on record for an
\* artifact within the one-hour window never exceeds its session's
\* maxIterationsPerUpdate, however the requests interleave.
C14_UpdatesInWindowWithinCap ==
  \A a \in DOMAIN artifacts :
     Has(sessions, artifacts[a].sessionId) =>
        Cardinality(UpdatesInWindow(a))
          <= sessions[artifacts[a].sessionId].config.maxIterationsPerUpdate

\* The number of lines of a content: one more than its line feeds.
LinesOf(content) == Cardinality({i \in 1..Len(content) : content[i] = NL}) + 1

\* C15: every stored artifact, after its creation and after every update, has
\* the lineCount and charCount of its current content and is promoted exactly
\* when lineCount > 20 or charCount > 1500.
C15_PromotionInvariant ==
  \A a \in DOMAIN artifacts :
     /\ artifacts[a].lineCount = LinesOf(artifacts[a].content)
     /\ artifacts[a].charCount = Len(artifacts[a].content)
     /\ artifacts[a].isPromoted <=>
          (LinesOf(artifacts[a].content) > 20 \/ Len(artifacts[a].content) > 1500)

\* An artifact created promoted whose update shrank it to exactly 20 lines,
\* and cleared the flag.
C15_Witness ==
  \E a \in DOMAIN artifacts :
     /\ artifacts[a].version = 2
     /\ artifacts[a].history[1].lineCount > 20 \/ artifacts[a].history[1].charCount > 1500
     /\ artifacts[a].lineCount = 20
     /\ ~artifacts[a].isPromoted
     /\ response.op = "PATCH /api/artifacts/:id" /\ response.status = 200

\* C16: POST /api/sessions answers with, and stores, a session of status
\* 'active', mode 'deliberation', every metric counter 0 and thresholds
\* maxIterationsPerUpdate = 4, maxLinesForUpdate = 20, maxLocationsForUpdate =
\* 5; and as long as the session has not been patched, the analysis of its
\* artifacts applies these thresholds.
C16_NewSessionDefaults ==
  /\ (response.op = "POST /api/sessions" /\ response.status = 201) =>
        /\ response.body.status = "active"
        /\ response.body.currentMode = "deliberation"
        /\ \A m \in DOMAIN response.body.metrics : response.body.metrics[m] = 0
        /\ response.body.config.maxIterationsPerUpdate = 4
        /\ response.body.config.maxLinesForUpdate = 20
        /\ response.body.config.maxLocationsForUpdate = 5
        /\ sessions[response.body.id] = response.body
  /\ \A a \in DOMAIN artifacts :
        (/\ Recommended /\ response.req.artifactId = a
         /\ artifacts[a].sessionId \in DOMAIN calls
         /\ ~calls[artifacts[a].sessionId].patched) =>
           /\ rec.maxIterations = 4
           /\ rec.decisionType = "update" <=>
                (rec.linesChanged <= 20 /\ rec.locationsChanged <= 5
                 /\ rec.currentIterations < 4)

\* In a session never patched, a change of six lines at six locations is a
\* 'rewrite'.
C16_Witness ==
  /\ Recommended
  /\ ~calls[artifacts[response.req.artifactId].sessionId].patched
  /\ rec.linesChanged = 6 /\ rec.locationsChanged = 6
  /\ rec.decisionType = "rewrite"

\* The state after a step is that of an analysis answered with a
\* recommendation in this very step.
JustRecommended ==
  /\ response'.op = "POST /api/analyze-change"
  /\ response'.status = 200
  /\ decisions' = decisions /\ now' = now /\ artifacts' = artifacts

\* C17 as stated: the count the analysis of artifact A uses is the number of
\* decisions on record with artifactId = A, type 'update' and a timestamp
\* less than one hour old.
C17_CountsUpdatesOfArtifactInWindow ==
  [][JustRecommended =>
       response'.body.currentIterations =
         Cardinality(UpdatesInWindow(response'.req.artifactId))]_vars

\* C17, amended: the count is the number of decisions on record under the
\* artifact's session id with artifactId = A, type 'update' and a timestamp
\* less than one hour old; a decision under another session id, for another
\* artifact, of another type, without a timestamp or one hour old does not
\* count.
C17_CountsUpdatesOfArtifactAndSessionInWindow ==
  [][JustRecommended =>
       response'.body.currentIterations =
         Cardinality({k \in UpdatesInWindow(response'.req.artifactId) :
                        decisions[k].sessionId
                          = artifacts[response'.req.artifactId].sessionId})]_vars

\* An analysis that counted no update while an update of the artifact, logged
\* exactly one hour before, is on record.
C17_Witness ==
  /\ Recommended
  /\ rec.currentIterations = 0
  /\ \E k \in DOMAIN decisions :
        /\ decisions[k].sessionId = 1 /\ decisions[k].artifactId = 1
        /\ decisions[k].type = "update"
        /\ decisions[k].timestamp.kind = "string"
        /\ now - decisions[k].timestamp.ms = WINDOW_MS

\* The update decisions of the artifact, logged under its session and less
\* than one hour old, that were recorded after the last rewrite decision of
\* the artifact (decisions are numbered in the order they were recorded).
UpdatesSinceRewrite(artifactId) ==
  {k \in UpdatesInWindow(artifactId) :
     /\ decisions[k].sessionId = artifacts[artifactId].sessionId
     /\ \A r \in DOMAIN decisions :
          (decisions[r].artifactId = artifactId /\ decisions[r].type = "rewrite") => r < k}

\* C18 as stated: the iteration count is the number of consecutive updates of
\* the artifact within the window; updates recorded before a rewrite decision
\* of the artifact do not count.
C18_RewriteResetsTheCount ==
  [][JustRecommended =>
       response'.body.currentIterations =
         Cardinality(UpdatesSinceRewrite(response'.req.artifactId))]_vars

\* The history of a stored artifact is well formed.
HistoryWellFormed(artifact) ==
  /\ artifact.version = Len(artifact.history)
  /\ \A k \in 1..Len(artifact.history) : artifact.history[k].version = k
  /\ artifact.history[1].decisionType = "create"
  /\ \A k \in 2..Len(artifact.history) :
        artifact.history[k].decisionType \in {"update", "rewrite"}
  /\ LET last == artifact.history[Len(artifact.history)]
     IN /\ last.content = artifact.content
        /\ last.lineCount = artifact.lineCount
        /\ last.charCount = artifact.charCount

\* The step is a PATCH /api/artifacts/:id answered with the updated artifact.
JustUpdated ==
  /\ response'.op = "PATCH /api/artifacts/:id"
  /\ response'.status = 200
  /\ artifacts' # artifacts

\* C19: for every stored artifact, version = length(history), the k-th entry
\* (from 1) has version k, the first entry has decisionType 'create', the
\* last entry carries the current content, lineCount and charCount; and
\* every successful update adds 1 to the version, leaves the earlier entries
\* as they were and appends an entry with the decisionType it was given.
C19_VersionHistory ==
  /\ [](\A a \in DOMAIN artifacts : HistoryWellFormed(artifacts[a]))
  /\ [][JustUpdated =>
          LET a == response'.req.id
              n == Len(artifacts[a].history)
          IN /\ artifacts'[a].version = artifacts[a].version + 1
             /\ Len(artifacts'[a].history) = n + 1
             /\ SubSeq(artifacts'[a].history, 1, n) = artifacts[a].history
             /\ artifacts'[a].history[n + 1].decisionType = response'.req.body.decisionType
             /\ artifacts'[a].history[n + 1].content = response'.req.body.content
             /\ \A b \in (DOMAIN artifacts) \ {a} : artifacts'[b] = artifacts[b]]_vars

\* An artifact updated and then rewritten: three entries, 'create', 'update',
\* 'rewrite', with three different contents.
C19_Witness ==
  \E a \in DOMAIN artifacts :
     /\ artifacts[a].version = 3
     /\ artifacts[a].history[2].decisionType = "update"
     /\ artifacts[a].history[3].decisionType = "rewrite"
     /\ artifacts[a].history[1].content # artifacts[a].history[2].content
     /\ artifacts[a].history[2].content # artifacts[a].history[3].content

\* C20: for every session that exists and was never modified by PATCH
\* /api/sessions/:id, artifactsCreated is the number of createArtifact calls
\* for it, updatesPerformed and rewritesPerformed are the numbers of
\* successful updateArtifact calls on its artifacts with decisionType
\* 'update' and 'rewrite', iterationCount is the number of createDecision
\* calls and toolCallsMade the number of createToolCall calls for it.
C20_MetricsTrackOperations ==
  \A sid \in DOMAIN sessions :
     (sid \in DOMAIN calls /\ ~calls[sid].patched) =>
        /\ sessions[sid].metrics.artifactsCreated = calls[sid].createArtifact
        /\ sessions[sid].metrics.updatesPerformed = calls[sid].updateArtifactUpdate
        /\ sessions[sid].metrics.rewritesPerformed = calls[sid].updateArtifactRewrite
        /\ sessions[sid].metrics.iterationCount = calls[sid].createDecision
        /\ sessions[sid].metrics.toolCallsMade = calls[sid].createToolCall

\* A session never patched with one artifact created, one update, one
\* rewrite, two decisions and one tool call on its counters.
C20_Witness ==
  /\ ~calls[1].patched
  /\ sessions[1].metrics.artifactsCreated = 1
  /\ sessions[1].metrics.updatesPerformed = 1
  /\ sessions[1].metrics.rewritesPerformed = 1
  /\ sessions[1].metrics.iterationCount = 2
  /\ sessions[1].metrics.toolCallsMade = 1

(***************************************************************************)
(* The storage methods at their await points                               *)
(*                                                                         *)
(* A route handler starts in a task of its own and awaits nothing but the  *)
(* promises of MemStorage, which are resolved when they are made, so a     *)
(* handler runs to its end before the next request is taken up: the route  *)
(* actions above are whole handlers.  A caller of the storage interface    *)
(* that starts several methods without awaiting each one gets the methods  *)
(* interleaved at their awaits: a method runs up to                        *)
(* `await this.getSession(..)`, which has read the session by then, and    *)
(* its continuation is queued behind those queued before it.               *)
(***************************************************************************)
MaxPending == 2

\* getSession(id), as a sequence: the session or nothing.
getSession(id) == IF Has(sessions, id) THEN <<sessions[id]>> ELSE <<>>

Suspend(task) ==
  /\ Len(microtasks) < MaxPending
  /\ microtasks' = Append(microtasks, task)

\* createArtifact up to `await this.getSession(insertArtifact.sessionId)`
CallCreateArtifact(insertArtifact) ==
  /\ ids.artifact < MaxArtifacts
  /\ LET id == ids.artifact + 1
         artifact == newArtifact(id, insertArtifact)
     IN /\ artifacts' = (id :> artifact) @@ artifacts
        /\ ids' = [ids EXCEPT !.artifact = id]
        /\ Suspend([method |-> "createArtifact", sessionId |-> insertArtifact.sessionId,
                    session |-> getSession(insertArtifact.sessionId),
                    lines |-> artifact.lineCount])
        /\ Called(insertArtifact.sessionId, "createArtifact")
  /\ UNCHANGED <<sessions, decisions, toolCalls, now, response, broadcasts, remembered,
                 callers, clients, sockets>>

\* updateArtifact up to `await this.getSession(artifact.sessionId)`
CallUpdateArtifact(id, update) ==
  /\ Has(artifacts, id)
  /\ artifacts[id].version < MaxVersion
  /\ LET artifact == artifacts[id]
         updated == updatedArtifact(artifact, update)
     IN /\ artifacts' = [artifacts EXCEPT ![id] = updated]
        /\ Suspend([method |-> "updateArtifact", sessionId |-> artifact.sessionId,
                    session |-> getSession(artifact.sessionId),
                    decisionType |-> update.decisionType,
                    lines |-> Max(0, updated.lineCount - artifact.lineCount)])
        /\ Called(artifact.sessionId,
                  IF update.decisionType = "update" THEN "updateArtifactUpdate"
                  ELSE "updateArtifactRewrite")
  /\ UNCHANGED <<sessions, decisions, toolCalls, ids, now, response, broadcasts,
                 remembered, callers, clients, sockets>>

\* createDecision up to `await this.getSession(decision.sessionId)`
CallCreateDecision(decision) ==
  /\ ids.decision < MaxDecisions
  /\ LET id == ids.decision + 1
     IN /\ decisions' = (id :> Merge(decision, [id |-> id])) @@ decisions
        /\ ids' = [ids EXCEPT !.decision = id]
        /\ Suspend([method |-> "createDecision", sessionId |-> decision.sessionId,
                    session |-> getSession(decision.sessionId)])
        /\ Called(decision.sessionId, "createDecision")
  /\ UNCHANGED <<sessions, artifacts, toolCalls, now, response, broadcasts, remembered,
                 callers, clients, sockets>>

\* createToolCall up to `await this.getSession(insertToolCall.sessionId)`:
\* the id is drawn, nothing is stored yet.
CallCreateToolCall(insertToolCall) ==
  /\ ids.toolCall < MaxToolCalls
  /\ LET id == ids.toolCall + 1
     IN /\ ids' = [ids EXCEPT !.toolCall = id]
        /\ Suspend([method |-> "createToolCall", sessionId |-> insertToolCall.sessionId,
                    session |-> getSession(insertToolCall.sessionId),
                    id |-> id, insertToolCall |-> insertToolCall])
        /\ Called(insertToolCall.sessionId, "createToolCall")
  /\ UNCHANGED <<sessions, artifacts, decisions, toolCalls, now, response, broadcasts,
                 remembered, callers, clients, sockets>>

\* { ...session.metrics }: the metrics of the session the method read before
\* its await.
MetricsRead(task) == task.session[1].metrics

\* The metrics the continuation of a method hands to updateSession.
MetricsWritten(task) ==
  LET metrics == MetricsRead(task)
  IN CASE task.method = "createArtifact" ->
            [metrics EXCEPT !.artifactsCreated = @ + 1, !.linesGenerated = @ + task.lines]
       [] task.method = "updateArtifact" ->
            IF task.decisionType = "update"
            THEN [metrics EXCEPT !.updatesPerformed = @ + 1, !.linesGenerated = @ + task.lines]
            ELSE [metrics EXCEPT !.rewritesPerformed = @ + 1, !.linesGenerated = @ + task.lines]
       [] task.method = "createDecision" -> [metrics EXCEPT !.iterationCount = @ + 1]
       [] task.method = "createToolCall" -> [metrics EXCEPT !.toolCallsMade = @ + 1]

\* The event loop resumes the first suspended method, which runs to its end:
\* `if (session) await this.updateSession(sessionId, { metrics: ... })`, after
\* createToolCall has stored the tool call.
Resume ==
  /\ microtasks # <<>>
  /\ LET task == Head(microtasks)
     IN /\ sessions' = IF task.session # <<>> /\ Has(sessions, task.sessionId)
                       THEN updateSession(sessions, task.sessionId,
                                          [metrics |-> MetricsWritten(task)])
                       ELSE sessions
        /\ toolCalls' =
             IF task.method = "createToolCall"
             THEN (task.id :> Merge(Merge([id |-> task.id], task.insertToolCall),
                                    [status |-> "pending",
                                     mode |-> IF task.session # <<>>
                                              THEN task.session[1].currentMode
                                              ELSE "action",
                                     timestamp |-> now])) @@ toolCalls
             ELSE toolCalls
  /\ microtasks' = Tail(microtasks)
  /\ UNCHANGED <<artifacts, decisions, ids, now, response, broadcasts, remembered,
                 callers, calls, clients, sockets>>

\* Storage methods started by callers that do not wait for one another, for
\* the session 1 and for a session id that does not exist.
NextInterleave ==
  \/ \E sid \in 0..ids.session :
       CallCreateArtifact([sessionId |-> sid, content |-> <<"a">>])
  \/ \E id \in 1..ids.artifact, body \in MetricPatches :
       updateArtifactSchema(body) /\ CallUpdateArtifact(id, body)
  \/ CallCreateDecision([sessionId |-> 1, artifactId |-> 1, type |-> "update",
                         timestamp |-> [kind |-> "string", ms |-> now]])
  \/ CallCreateToolCall([sessionId |-> 1, name |-> "read_file"])
  \/ Resume

SpecInterleave == InitMetrics /\ [][NextInterleave]_vars

\* C21: once every storage method that was started has run to its end, the
\* counters of each session equal the numbers of createArtifact,
\* updateArtifact (by decision type), createDecision and createToolCall
\* calls made for it, however the methods interleaved at their awaits.
C21_NoIncrementLost ==
  microtasks = <<>> =>
    \A sid \in DOMAIN sessions :
       sid \in DOMAIN calls =>
          /\ sessions[sid].metrics.artifactsCreated = calls[sid].createArtifact
          /\ sessions[sid].metrics.updatesPerformed = calls[sid].updateArtifactUpdate
          /\ sessions[sid].metrics.rewritesPerformed = calls[sid].updateArtifactRewrite
          /\ sessions[sid].metrics.iterationCount = calls[sid].createDecision
          /\ sessions[sid].metrics.toolCallsMade = calls[sid].createToolCall

(***************************************************************************)
(* Routes of the session tags and of tool-call updates                     *)
(***************************************************************************)
AgentModes == {"deliberation", "action", "research"}

SessionStatuses == {"active", "paused", "completed", "error"}

updateSessionMode(ss, id, mode) == updateSession(ss, id, [currentMode |-> mode])

updateSessionStatus(ss, id, status) == updateSession(ss, id, [status |-> status])

\* Mutant: a session that is completed or in error keeps its mode.
PostSessionMode_guardedByStatus(id, mode) ==
  LET req == [id |-> id, mode |-> mode]
  IN /\ IF mode \notin AgentModes \/ (Has(sessions, id) /\ sessions[id].status \in {"completed", "error"})
        THEN /\ Respond("POST /api/sessions/:id/mode", req, 400, [message |-> "Invalid mode"])
             /\ NoBroadcast
             /\ UNCHANGED sessions
        ELSE /\ sessions' = updateSessionMode(sessions, id, mode)
             /\ IF Has(sessions, id)
                THEN /\ Respond("POST /api/sessions/:id/mode", req, 200, sessions'[id])
                     /\ Broadcast("session:mode-changed",
                                  [sessionId |-> sessions'[id].id, mode |-> mode])
                ELSE /\ Respond("POST /api/sessions/:id/mode", req, 404,
                                [message |-> "Session not found"])
                     /\ NoBroadcast
     /\ UNCHANGED <<artifacts, decisions, toolCalls, ids, now, remembered, callers, calls,
                    microtasks, clients>>

\* POST /api/sessions/:id/mode
PostSessionMode(id, mode) ==
  LET req == [id |-> id, mode |-> mode]
  IN /\ IF mode \notin AgentModes
        THEN /\ Respond("POST /api/sessions/:id/mode", req, 400, [message |-> "Invalid mode"])
             /\ NoBroadcast
             /\ UNCHANGED sessions
        ELSE /\ sessions' = updateSessionMode(sessions, id, mode)
             /\ IF Has(sessions, id)
                THEN /\ Respond("POST /api/sessions/:id/mode", req, 200, sessions'[id])
                     /\ Broadcast("session:mode-changed",
                                  [sessionId |-> sessions'[id].id, mode |-> mode])
                ELSE /\ Respond("POST /api/sessions/:id/mode", req, 404,
                                [message |-> "Session not found"])
                     /\ NoBroadcast
     /\ UNCHANGED <<artifacts, decisions, toolCalls, ids, now, remembered, callers, calls,
                    microtasks, clients>>

\* Mutant: the status change of a session that is not stored is announced.
PostSessionStatus_announcesMissing(id, status) ==
  LET req == [id |-> id, status |-> status]
  IN /\ IF status \notin SessionStatuses
        THEN /\ Respond("POST /api/sessions/:id/status", req, 400,
                        [message |-> "Invalid status"])
             /\ NoBroadcast
             /\ UNCHANGED sessions
        ELSE /\ sessions' = updateSessionStatus(sessions, id, status)
             /\ IF Has(sessions, id)
                THEN /\ Respond("POST /api/sessions/:id/status", req, 200, sessions'[id])
                ELSE /\ Respond("POST /api/sessions/:id/status", req, 404,
                                [message |-> "Session not found"])
             /\ Broadcast("session:status-changed", [sessionId |-> id, status |-> status])
     /\ UNCHANGED <<artifacts, decisions, toolCalls, ids, now, remembered, callers, calls,
                    microtasks, clients>>

\* POST /api/sessions/:id/status
PostSessionStatus(id, status) ==
  LET req == [id |-> id, status |-> status]
  IN /\ IF status \notin SessionStatuses
        THEN /\ Respond("POST /api/sessions/:id/status", req, 400,
                        [message |-> "Invalid status"])
             /\ NoBroadcast
             /\ UNCHANGED sessions
        ELSE /\ sessions' = updateSessionStatus(sessions, id, status)
             /\ IF Has(sessions, id)
                THEN /\ Respond("POST /api/sessions/:id/status", req, 200, sessions'[id])
                     /\ Broadcast("session:status-changed",
                                  [sessionId |-> sessions'[id].id, status |-> status])
                ELSE /\ Respond("POST /api/sessions/:id/status", req, 404,
                                [message |-> "Session not found"])
                     /\ NoBroadcast
     /\ UNCHANGED <<artifacts, decisions, toolCalls, ids, now, remembered, callers, calls,
                    microtasks, clients>>

\* The tool calls map after updateToolCall(id, updates) on the map tcs.
updateToolCall(tcs, id, updates) ==
  IF ~Has(tcs, id) THEN tcs ELSE [tcs EXCEPT ![id] = Merge(tcs[id], updates)]

\* PATCH /api/tool-calls/:id (the body is not validated)
PatchToolCall(id, body) ==
  /\ toolCalls' = updateToolCall(toolCalls, id, body)
  /\ IF Has(toolCalls, id)
     THEN /\ Respond("PATCH /api/tool-calls/:id", [id |-> id, body |-> body], 200,
                     toolCalls'[id])
          /\ Broadcast("tool-call:updated", toolCalls'[id])
     ELSE /\ Respond("PATCH /api/tool-calls/:id", [id |-> id, body |-> body], 404,
                     [message |-> "Tool call not found"])
          /\ NoBroadcast
  /\ UNCHANGED <<sessions, artifacts, decisions, ids, now, remembered, callers, calls,
                 microtasks, clients>>

\* Values of the mode and of the status a request may carry: the declared
\* ones, and one that is not declared.
ModeInputs == AgentModes \cup {"planning"}

StatusInputs == SessionStatuses \cup {"archived"}

\* Every request of the session routes and of the artifact routes that
\* changes the store, on records that exist and on ids that do not, with
\* bodies that pass validation and bodies that fail it.
NextEvents ==
  \/ \E valid \in BOOLEAN : PostSessions(valid)
  \/ \E id \in 0..ids.session : PatchSession(id, [currentMode |-> "research"])
  \/ \E id \in 0..ids.session : DeleteSession(id)
  \/ \E id \in 0..ids.session, mode \in {"research", "planning"} : PostSessionMode(id, mode)
  \/ \E id \in 0..ids.session, status \in {"paused", "archived"} : PostSessionStatus(id, status)
  \/ \E valid \in BOOLEAN :
       PostArtifacts(valid, [sessionId |-> 0, content |-> <<"a">>])
  \/ \E id \in 0..ids.artifact, valid \in BOOLEAN :
       PatchArtifact(id, valid, [content |-> <<"a", NL, "a">>, decisionType |-> "update"])
  \/ \E id \in 0..ids.artifact : DeleteArtifact(id)

SpecEvents == Init /\ [][NextEvents]_vars

\* The requests that change the store, with the name of the event of each.
EventOf ==
  [r \in {"POST /api/sessions", "PATCH /api/sessions/:id", "DELETE /api/sessions/:id",
          "POST /api/sessions/:id/mode", "POST /api/sessions/:id/status",
          "POST /api/artifacts", "PATCH /api/artifacts/:id", "DELETE /api/artifacts/:id"} |->
     CASE r = "POST /api/sessions" -> "session:created"
       [] r = "PATCH /api/sessions/:id" -> "session:updated"
       [] r = "DELETE /api/sessions/:id" -> "session:deleted"
       [] r = "POST /api/sessions/:id/mode" -> "session:mode-changed"
       [] r = "POST /api/sessions/:id/status" -> "session:status-changed"
       [] r = "POST /api/artifacts" -> "artifact:created"
       [] r = "PATCH /api/artifacts/:id" -> "artifact:updated"
       [] r = "DELETE /api/artifacts/:id" -> "artifact:deleted"]

Succeeded(r) == r.status \in {200, 201, 204}

\* The record the request just answered has left in the store (for a delete,
\* which leaves none, the id it removed).
ResultingRecord ==
  LET r == response'
  IN CASE r.op = "POST /api/sessions" -> sessions'[ids'.session]
       [] r.op \in {"PATCH /api/sessions/:id", "POST /api/sessions/:id/mode",
                    "POST /api/sessions/:id/status"} -> sessions'[r.req.id]
       [] r.op = "POST /api/artifacts" -> artifacts'[ids'.artifact]
       [] r.op = "PATCH /api/artifacts/:id" -> artifacts'[r.req.id]
       [] r.op \in {"DELETE /api/sessions/:id", "DELETE /api/artifacts/:id"} ->
            [id |-> r.req.id]

\* What the event of the request just answered carries: the resulting record,
\* but for a change of mode or status the session's id and the new tag.
Payload ==
  LET r == response'
  IN CASE r.op = "POST /api/sessions/:id/mode" ->
            [sessionId |-> sessions'[r.req.id].id, mode |-> r.req.mode]
       [] r.op = "POST /api/sessions/:id/status" ->
            [sessionId |-> sessions'[r.req.id].id, status |-> r.req.status]
       [] OTHER -> ResultingRecord

\* A request that fails validation or targets a missing record changes
\* nothing in the store and emits no event.
FailureIsSilent ==
  response'.status \in {400, 404} => (broadcasts' = <<>> /\ UNCHANGED store)

\* C22 as claimed: every successful create/update/delete/mode/status request
\* emits exactly one event, named after the request, that carries the
\* resulting record as the store holds it after the request; a request
\* answered 400 or 404 changes nothing in the store and emits no event.
C22_OneEventCarryingTheRecord ==
  [][ /\ FailureIsSilent
      /\ (response'.op \in DOMAIN EventOf /\ Succeeded(response')) =>
            broadcasts' = <<[event |-> EventOf[response'.op], data |-> ResultingRecord]>>
    ]_vars

\* C22, amended: the same, but the event of a mode or status change carries
\* { sessionId, mode } or { sessionId, status } and the event of a delete
\* carries { id }, not a record.
C22_OneEventPerMutation ==
  [][ /\ FailureIsSilent
      /\ (response'.op \in DOMAIN EventOf /\ Succeeded(response')) =>
            broadcasts' = <<[event |-> EventOf[response'.op], data |-> Payload]>>
    ]_vars

\* A mode change was answered 200 for a session that had been paused, with
\* an artifact at its second version in the store.
C22_Witness ==
  /\ response.op = "POST /api/sessions/:id/mode"
  /\ response.status = 200
  /\ broadcasts = <<[event |-> "session:mode-changed",
                     data |-> [sessionId |-> 1, mode |-> "research"]]>>
  /\ Has(sessions, 1) /\ sessions[1].status = "paused"
  /\ Has(artifacts, 1) /\ artifacts[1].version = 2

(***************************************************************************)
(* The WebSocket server                                                    *)
(*                                                                         *)
(* A socket is OPEN when the server emits "connection".  It leaves OPEN    *)
(* when a closing handshake starts or an error occurs (CLOSING), and is    *)
(* CLOSED when its "close" event is emitted.                               *)
(***************************************************************************)
MaxSockets == 2

MaxSent == 2

\* wss.on("connection", (ws) => { clients.add(ws); ... })
Connect ==
  /\ Cardinality(DOMAIN sockets) < MaxSockets
  /\ LET ws == Cardinality(DOMAIN sockets) + 1
     IN /\ sockets' = (ws :> [readyState |-> WebSocket.OPEN, errored |-> FALSE,
                              sent |-> <<>>]) @@ sockets
        /\ clients' = clients \cup {ws}
  /\ UNCHANGED <<store, now, response, broadcasts, remembered, callers, calls, microtasks>>

\* The closing handshake of a socket starts: no handler of the server runs.
Closing(ws) ==
  /\ sockets[ws].readyState = WebSocket.OPEN
  /\ sockets' = [sockets EXCEPT ![ws].readyState = WebSocket.CLOSING]
  /\ UNCHANGED <<store, now, response, broadcasts, remembered, callers, calls, microtasks,
                 clients>>

\* ws.on("close", () => { clients.delete(ws); })
OnClose(ws) ==
  /\ sockets[ws].readyState \in {WebSocket.OPEN, WebSocket.CLOSING}
  /\ sockets' = [sockets EXCEPT ![ws].readyState = WebSocket.CLOSED]
  /\ clients' = clients \ {ws}
  /\ UNCHANGED <<store, now, response, broadcasts, remembered, callers, calls, microtasks>>

\* ws.on("error", (error) => { clients.delete(ws); }): the socket is CLOSING
\* when the event is emitted, and its "close" event follows.
OnError(ws) ==
  /\ sockets[ws].readyState = WebSocket.OPEN
  /\ sockets' = [sockets EXCEPT ![ws].readyState = WebSocket.CLOSING, ![ws].errored = TRUE]
  /\ clients' = clients \ {ws}
  /\ UNCHANGED <<store, now, response, broadcasts, remembered, callers, calls, microtasks>>

\* Sockets come and go while the mode of session 1 is changed, which
\* broadcasts one of two events, and while requests that broadcast nothing
\* are answered.
NextSockets ==
  \/ Connect
  \/ \E ws \in DOMAIN sockets : Closing(ws)
  \/ \E ws \in DOMAIN sockets : OnClose(ws)
  \/ \E ws \in DOMAIN sockets : OnError(ws)
  \/ /\ \A ws \in DOMAIN sockets : Len(sockets[ws].sent) < MaxSent
     /\ \E id \in 0..1, mode \in {"research", "action"} : PostSessionMode(id, mode)

SpecSockets == InitMetrics /\ [][NextSockets]_vars

\* A step of a route handler: no socket connects or changes its state.
HandlerStep ==
  /\ DOMAIN sockets' = DOMAIN sockets
  /\ clients' = clients
  /\ \A ws \in DOMAIN sockets : sockets'[ws].readyState = sockets[ws].readyState

\* C23: a handler that broadcasts an event calls send with it once on every
\* socket that is in the client set and OPEN at that moment, and on no
\* other; nothing else is ever sent, so a socket that connects starts with
\* nothing of what was broadcast before; a socket that has closed or errored
\* is not in the client set.
C23_BestEffortDelivery ==
  /\ [](\A ws \in DOMAIN sockets :
          (sockets[ws].readyState = WebSocket.CLOSED \/ sockets[ws].errored) =>
             ws \notin clients)
  /\ [][\A ws \in DOMAIN sockets' :
          LET sentBefore == IF ws \in DOMAIN sockets THEN sockets[ws].sent ELSE <<>>
              receives == /\ HandlerStep
                          /\ broadcasts' # <<>>
                          /\ ws \in clients
                          /\ sockets[ws].readyState = WebSocket.OPEN
          IN sockets'[ws].sent = IF receives THEN sentBefore \o broadcasts'
                                 ELSE sentBefore
      ]_vars

\* The first socket received the change to research and closed; the second
\* connected afterwards and has received the change to action only.
C23_Witness ==
  /\ DOMAIN sockets = {1, 2}
  /\ sockets[1].readyState = WebSocket.CLOSED
  /\ sockets[1].sent = <<[event |-> "session:mode-changed",
                          data |-> [sessionId |-> 1, mode |-> "research"]]>>
  /\ sockets[2].readyState = WebSocket.OPEN
  /\ clients = {2}
  /\ sockets[2].sent = <<[event |-> "session:mode-changed",
                          data |-> [sessionId |-> 1, mode |-> "action"]]>>

\* The tags of session 1 and of a session id that does not exist are set, to
\* declared values and to values that are not declared, as time passes.
NextTags ==
  \/ \E id \in 0..1, mode \in ModeInputs : PostSessionMode(id, mode)
  \/ \E id \in 0..1, status \in StatusInputs : PostSessionStatus(id, status)
  \/ Tick

SpecTags == InitMetrics /\ [][NextTags]_vars

\* C24: whatever the mode and the status of a stored session, a mode request
\* with a declared mode is answered 200 and a status request with a declared
\* status is answered 200, and the session afterwards differs from the
\* session before in that tag and in lastActivityAt only; a request with a
\* value that is not declared is answered 400 and leaves the sessions as
\* they were.
C24_TagsAreUnguarded ==
  [][ LET r == response'
      IN (now' = now /\ Has(sessions, r.req.id)) =>
           /\ r.op = "POST /api/sessions/:id/mode" =>
                IF r.req.mode \in AgentModes
                THEN /\ r.status = 200
                     /\ sessions' = [sessions EXCEPT ![r.req.id] =
                          [@ EXCEPT !.currentMode = r.req.mode, !.lastActivityAt = now]]
                ELSE r.status = 400 /\ sessions' = sessions
           /\ r.op = "POST /api/sessions/:id/status" =>
                IF r.req.status \in SessionStatuses
                THEN /\ r.status = 200
                     /\ sessions' = [sessions EXCEPT ![r.req.id] =
                          [@ EXCEPT !.status = r.req.status, !.lastActivityAt = now]]
                ELSE r.status = 400 /\ sessions' = sessions
    ]_vars

\* The mode of a session in error has just been set to action, later than
\* the session started.
C24_Witness ==
  /\ response.op = "POST /api/sessions/:id/mode"
  /\ response.status = 200
  /\ response.req.mode = "action"
  /\ sessions[1].status = "error"
  /\ sessions[1].currentMode = "action"
  /\ sessions[1].lastActivityAt = WINDOW_MS
  /\ sessions[1].startedAt = 0
  /\ sessions[1].metrics = DEFAULT_SESSION_METRICS

(***************************************************************************)
(* Two artifacts                                                           *)
(***************************************************************************)
\* Two sessions as POST /api/sessions leaves them, artifact 1 in session 1
\* and artifact 2 in session 1 or in session 2, as POST /api/artifacts
\* leaves them.
InitIndependent ==
  /\ now = 0
  /\ remembered = <<>>
  /\ decisions = <<>>
  /\ toolCalls = <<>>
  /\ callers = <<>>
  /\ microtasks = <<>>
  /\ clients = {}
  /\ sockets = <<>>
  /\ ids = [session |-> 2, artifact |-> 2, decision |-> 0, toolCall |-> 0]
  /\ \E other \in 1..2 :
       /\ artifacts = (1 :> newArtifact(1, [sessionId |-> 1, content |-> <<"a">>]))
                      @@ (2 :> newArtifact(2, [sessionId |-> other, content |-> <<"a">>]))
       /\ sessions =
            [s \in 1..2 |->
               [createSession(s) EXCEPT
                  !.metrics.artifactsCreated = Cardinality({a \in 1..2 : artifacts[a].sessionId = s}),
                  !.metrics.linesGenerated = Cardinality({a \in 1..2 : artifacts[a].sessionId = s})]]
       /\ calls = [s \in 1..2 |->
                     [NoCalls EXCEPT
                        !.createArtifact = Cardinality({a \in 1..2 : artifacts[a].sessionId = s})]]
       /\ response = [op |-> "POST /api/artifacts",
                      req |-> [valid |-> TRUE,
                               body |-> [sessionId |-> other, content |-> <<"a">>]],
                      read |-> <<>>, status |-> 201, body |-> artifacts[2]]
       /\ broadcasts = <<[event |-> "artifact:created", data |-> artifacts[2]]>>

\* Analyses of both artifacts, while update decisions are logged for either
\* and the content of artifact 2 is changed.
NextIndependent ==
  \/ \E artifactId \in 1..2, newContent \in {<<"a">>, <<"b">>} :
       AnalyzeChange(artifactId, newContent)
  \/ \E artifactId \in 1..2 :
       PostDecisions([sessionId |-> artifacts[artifactId].sessionId,
                      artifactId |-> artifactId, type |-> "update",
                      timestamp |-> [kind |-> "string", ms |-> now]])
  \/ \E decisionType \in {"update", "rewrite"} :
       PatchArtifact(2, TRUE, [content |-> <<"b">>, decisionType |-> decisionType])

SpecIndependent == InitIndependent /\ [][NextIndependent]_vars

\* The answer of analyze-change for the artifact and the proposed content in
\* a store that holds, of all decisions, only those logged for this artifact.
AnswerAlone(artifactId, newContent) ==
  LET artifact == artifacts[artifactId]
      session == sessions[artifact.sessionId]
      own == {k \in SessionDecisions(session.id) : decisions[k].artifactId = artifactId}
      stats == DiffStats(artifact.content, newContent)
  IN IF Cardinality(own) >= 2 /\ \E k \in own : ~HasGetTime(decisions[k].timestamp)
     THEN [status |-> 500, body |-> [message |-> "TypeError: getTime is not a function"]]
     ELSE [status |-> 200,
           body |-> Recommendation(stats.linesChanged, stats.locationsChanged,
                      Cardinality({k \in own : /\ decisions[k].type = "update"
                                                /\ WithinLastHour(decisions[k].timestamp)}),
                      session.config)]

\* A step in which analyze-change was answered: the store and the clock are
\* as before.
JustAnalyzed ==
  /\ response'.op = "POST /api/analyze-change"
  /\ UNCHANGED <<store, now>>

\* C25: the answer of analyze-change for artifact 1 is the answer it would
\* get if nothing had ever been logged for another artifact, whatever
\* analyses, decisions and content updates for artifact 2 came before it.
C25_AnswerIndependentOfOtherArtifacts ==
  [][(JustAnalyzed /\ response'.req.artifactId = 1) =>
        /\ response'.status = AnswerAlone(1, response'.req.newContent).status
        /\ response'.body = AnswerAlone(1, response'.req.newContent).body
    ]_vars

\* C26: every analyze-change request for an artifact that is stored and
\* whose session is stored is answered with a recommendation, whatever
\* decisions POST /api/decisions has stored before.
C26_AnalysisAlwaysAnswers ==
  [][(/\ JustAnalyzed
      /\ Has(artifacts, response'.req.artifactId)
      /\ Has(sessions, artifacts[response'.req.artifactId].sessionId)) =>
        /\ response'.status = 200
        /\ response'.body.decisionType \in {"update", "rewrite"}
    ]_vars

(***************************************************************************)
(* Artifacts whose session is deleted                                      *)
(***************************************************************************)
\* GET /api/artifacts/:id
GetArtifact(id) ==
  /\ IF Has(artifacts, id)
     THEN Respond("GET /api/artifacts/:id", [id |-> id], 200, artifacts[id])
     ELSE Respond("GET /api/artifacts/:id", [id |-> id], 404,
                  [message |-> "Artifact not found"])
  /\ NoBroadcast
  /\ UNCHANGED <<store, now, remembered, callers, calls, microtasks, clients>>

\* One artifact in one session: the session and the artifact are deleted,
\* the artifact is fetched, decisions are logged for it, and analyses are
\* asked for it and for an id that was never given out.
NextOrphans ==
  \/ PostDecisions([sessionId |-> 1, artifactId |-> 1, type |-> "update",
                    timestamp |-> [kind |-> "string", ms |-> now]])
  \/ \E id \in 0..ids.session : DeleteSession(id)
  \/ \E id \in 0..ids.artifact : DeleteArtifact(id)
  \/ \E id \in 0..ids.artifact : GetArtifact(id)
  \/ \E artifactId \in 0..ids.artifact, newContent \in StoreContents :
       AnalyzeChange(artifactId, newContent)

SpecOrphans == InitEngine /\ [][NextOrphans]_vars

\* C27: analyze-change answers 404 'Artifact not found' and no
\* recommendation for an id under which no artifact is stored, and 404
\* 'Session not found' and no recommendation for an artifact whose session
\* is not stored; deleting a session leaves the artifacts as they are, and
\* an artifact that is stored is returned by GET /api/artifacts/:id whether
\* its session is stored or not.
C27_NotFound ==
  [][ LET r == response'
      IN /\ (r.op = "POST /api/analyze-change" /\ ~Has(artifacts, r.req.artifactId)) =>
              (r.status = 404 /\ r.body = [message |-> "Artifact not found"])
         /\ (/\ r.op = "POST /api/analyze-change"
             /\ Has(artifacts, r.req.artifactId)
             /\ ~Has(sessions, artifacts[r.req.artifactId].sessionId)) =>
              (r.status = 404 /\ r.body = [message |-> "Session not found"])
         /\ r.op = "DELETE /api/sessions/:id" => artifacts' = artifacts
         /\ (r.op = "GET /api/artifacts/:id" /\ Has(artifacts, r.req.id)) =>
              (r.status = 200 /\ r.body = artifacts[r.req.id])
    ]_vars

\* The session is deleted, its artifact is stored, and the analysis of the
\* artifact has just been refused.
C27_Witness ==
  /\ ~Has(sessions, 1)
  /\ Has(artifacts, 1) /\ artifacts[1].sessionId = 1
  /\ response.op = "POST /api/analyze-change"
  /\ response.req.artifactId = 1
  /\ response.status = 404
  /\ response.body = [message |-> "Session not found"]

(***************************************************************************)
(* Applying changes and logging decisions                                  *)
(***************************************************************************)
\* One artifact in one session: changes are applied to the artifact, as
\* updates and as rewrites, decisions are logged, and analyses are asked for.
NextApplied ==
  \/ \E content \in {<<"a">>, <<"b">>}, decisionType \in {"update", "rewrite"} :
       PatchArtifact(1, TRUE, [content |-> content, decisionType |-> decisionType])
  \/ PostDecisions([sessionId |-> 1, artifactId |-> 1, type |-> "update",
                    timestamp |-> [kind |-> "string", ms |-> now]])
  \/ \E newContent \in {<<"a">>, <<"b">>} : AnalyzeChange(1, newContent)

SpecApplied == InitEngine /\ [][NextApplied]_vars

\* C28: a PATCH /api/artifacts/:id with decisionType 'update' that succeeds
\* adds 1 to updatesPerformed of the artifact's session and leaves the
\* decisions as they are; the decisions change in no step but a POST
\* /api/decisions; and as long as no decision has been logged, every
\* analysis of the artifact is answered with currentIterations = 0, however
\* many updates have been applied to it.
C28_ApplyingDoesNotCount ==
  [][ LET r == response'
      IN /\ (/\ r.op = "PATCH /api/artifacts/:id"
             /\ r.status = 200
             /\ r.req.body.decisionType = "update") =>
               /\ decisions' = decisions
               /\ sessions'[1].metrics.updatesPerformed =
                    sessions[1].metrics.updatesPerformed + 1
         /\ decisions' # decisions => r.op = "POST /api/decisions"
         /\ (r.op = "POST /api/analyze-change" /\ decisions = <<>>) =>
               (r.status = 200 /\ r.body.currentIterations = 0)
    ]_vars

\* Two updates have been applied to the artifact, none was logged, and an
\* analysis has just reported no iteration.
C28_Witness ==
  /\ response.op = "POST /api/analyze-change"
  /\ response.status = 200
  /\ response.body.currentIterations = 0
  /\ artifacts[1].version = 3
  /\ sessions[1].metrics.updatesPerformed = 2
  /\ decisions = <<>>

\* C29: with n the larger of the two line counts, 0 <= locationsChanged <=
\* linesChanged <= n, locationsChanged is 0 exactly when linesChanged is 0,
\* and locationsChanged is at most n / 2 rounded up.
C29_DiffStatsBounds ==
  Recommended =>
     LET n == Max(Len(Before), Len(After))
     IN /\ 0 <= rec.locationsChanged
        /\ rec.locationsChanged <= rec.linesChanged
        /\ rec.linesChanged <= n
        /\ (rec.locationsChanged = 0) <=> (rec.linesChanged = 0)
        /\ rec.locationsChanged <= (n + 1) \div 2

\* Three lines against three lines that differ in the first and in the
\* last: two locations, which is 3 / 2 rounded up.
C29_Witness ==
  /\ Recommended
  /\ Len(Before) = 3 /\ Len(After) = 3
  /\ rec.linesChanged = 2
  /\ rec.locationsChanged = 2

(***************************************************************************)
(* Keys and id fields                                                      *)
(***************************************************************************)
\* Bodies of the PATCH requests that are stored unvalidated: one that
\* carries an id field and one that does not.
IdentityBodies == {[id |-> 0], [status |-> "completed"]}

\* Records are created and updated, for session 1, by requests whose bodies
\* carry an id field of their own wherever the route does not validate the
\* body.
NextIdentity ==
  \/ \E body \in IdentityBodies : PatchSession(1, body)
  \/ PostArtifacts(TRUE, [sessionId |-> 1, content |-> <<"a">>])
  \/ \E id \in 1..ids.artifact :
       PatchArtifact(id, TRUE, [content |-> <<"b">>, decisionType |-> "update"])
  \/ PostDecisions([id |-> 0, sessionId |-> 1, artifactId |-> 1, type |-> "update",
                    timestamp |-> [kind |-> "string", ms |-> now]])
  \/ PostToolCalls(TRUE, [sessionId |-> 1, name |-> "read_file"])
  \/ \E id \in 1..ids.toolCall, body \in IdentityBodies : PatchToolCall(id, body)

SpecIdentity == InitMetrics /\ [][NextIdentity]_vars

\* C30: every record of the sessions, artifacts, decisions and tool calls
\* maps has an id field equal to the key it is stored under.
C30_IdIsKey ==
  /\ \A k \in DOMAIN sessions : sessions[k].id = k
  /\ \A k \in DOMAIN artifacts : artifacts[k].id = k
  /\ \A k \in DOMAIN decisions : decisions[k].id = k
  /\ \A k \in DOMAIN toolCalls : toolCalls[k].id = k

====
